---- MODULE Spec2Model ----
(***************************************************************************)
(* Model of the scratch HTTP server: the worker pool (src/thread/mod.rs),  *)
(* the accept loop and per-connection job (src/net/http/server.rs), the    *)
(* socket layer (src/net/tcp.rs, src/net/mod.rs) and the request parser    *)
(* (src/net/http/request.rs, src/net/http/common.rs).                      *)
(*                                                                         *)
(* Text is a sequence of one-character strings; bytes that are not text    *)
(* are the symbol NUL (a zero byte of the read buffer).                    *)
(***************************************************************************)
EXTENDS Integers, Sequences, FiniteSets, TLC

\* ------------------------------------------------------------------ bounds
\* Pool size (num_cpus::get() in the program: whatever the machine has).
NumWorkers == 2
\* Connections the accept loop accepts before the model stops accepting.
MaxConns == 3
\* Length of the read buffer of the model (30000 in the program, server.rs:55).
BufLen == 28

Workers == 1..NumWorkers
Conns == 1..MaxConns
\* Socket values: 0 is the listener's socket, c > 0 the socket of connection c.
Socks == 0..MaxConns
\* Descriptor numbers of the process: one for the listener and one for every
\* connection of the model.
Fds == 1..(MaxConns + 1)

\* ------------------------------------------------------------------- text
NUL == "0x00"
SP == <<" ">>
CRLF == <<"\r", "\n">>
Digits == <<"0", "1", "2", "3", "4", "5", "6", "7", "8", "9">>

ParseError == [ok |-> FALSE]

\* str::starts_with
StartsWith(txt, pat) ==
  /\ Len(txt) >= Len(pat)
  /\ SubSeq(txt, 1, Len(pat)) = pat

\* Position of the first occurrence of pat in txt, 0 when there is none.
RECURSIVE FindFrom(_, _, _)
FindFrom(txt, pat, i) ==
  IF i + Len(pat) - 1 > Len(txt) THEN 0
  ELSE IF SubSeq(txt, i, i + Len(pat) - 1) = pat THEN i
  ELSE FindFrom(txt, pat, i + 1)

\* str::splitn(2, pat): one piece when pat does not occur, else the text
\* before the first occurrence and everything after it.
SplitN2(txt, pat) ==
  LET i == FindFrom(txt, pat, 1) IN
  IF i = 0 THEN <<txt>>
  ELSE <<SubSeq(txt, 1, i - 1), SubSeq(txt, i + Len(pat), Len(txt))>>

\* str::split(pat): every piece.
RECURSIVE Split(_, _)
Split(txt, pat) ==
  LET i == FindFrom(txt, pat, 1) IN
  IF i = 0 THEN <<txt>>
  ELSE <<SubSeq(txt, 1, i - 1)>> \o Split(SubSeq(txt, i + Len(pat), Len(txt)), pat)

DigitVal(ch) == (CHOOSE i \in 1..10 : Digits[i] = ch) - 1
IsDigit(ch) == \E i \in 1..10 : Digits[i] = ch

RECURSIVE DecVal(_)
DecVal(ds) ==
  IF ds = <<>> THEN 0
  ELSE LET v == 10 * DecVal(SubSeq(ds, 1, Len(ds) - 1)) + DigitVal(ds[Len(ds)])
       IN IF v > 255 THEN 256 ELSE v

\* str::parse::<u8>: an optional "+", then one or more decimal digits whose
\* value fits eight bits.
ParseU8(txt) ==
  LET ds == IF txt # <<>> /\ txt[1] = "+" THEN Tail(txt) ELSE txt IN
  IF ds = <<>> \/ \E i \in 1..Len(ds) : ~IsDigit(ds[i]) THEN ParseError
  ELSE IF DecVal(ds) > 255 THEN ParseError
  ELSE [ok |-> TRUE, val |-> DecVal(ds)]

\* ----------------------------------------------------------------- parser
Methods == {"OPTIONS", "GET", "HEAD", "POST", "PUT", "DELETE", "TRACE", "CONNECT"}

\* Method::from_str with a default for every other token instead of the error.
MethodFromStrLenient(tok) ==
  IF tok = <<"P", "O", "S", "T">> THEN [ok |-> TRUE, val |-> "POST"]
  ELSE [ok |-> TRUE, val |-> "GET"]

\* Method::from_str: the chain of comparisons of request.rs.
MethodFromStr(tok) ==
  IF tok = <<"O", "P", "T", "I", "O", "N", "S">> THEN [ok |-> TRUE, val |-> "OPTIONS"]
  ELSE IF tok = <<"G", "E", "T">> THEN [ok |-> TRUE, val |-> "GET"]
  ELSE IF tok = <<"H", "E", "A", "D">> THEN [ok |-> TRUE, val |-> "HEAD"]
  ELSE IF tok = <<"P", "O", "S", "T">> THEN [ok |-> TRUE, val |-> "POST"]
  ELSE IF tok = <<"P", "U", "T">> THEN [ok |-> TRUE, val |-> "PUT"]
  ELSE IF tok = <<"D", "E", "L", "E", "T", "E">> THEN [ok |-> TRUE, val |-> "DELETE"]
  ELSE IF tok = <<"T", "R", "A", "C", "E">> THEN [ok |-> TRUE, val |-> "TRACE"]
  ELSE ParseError

\* Method::parse
MethodParse(txt) ==
  LET itr == SplitN2(txt, SP) IN
  IF Len(itr) < 2 THEN ParseError
  ELSE LET meth == MethodFromStr(itr[1]) IN
       IF meth.ok THEN [ok |-> TRUE, rest |-> itr[2], val |-> meth.val]
       ELSE ParseError

\* A Url::parse that splits at the last space of the text.
UrlParseGreedy(txt) ==
  LET itr == Split(txt, SP) IN
  IF Len(itr) < 2 THEN ParseError
  ELSE [ok |-> TRUE, rest |-> itr[Len(itr)],
        val |-> SubSeq(txt, 1, Len(txt) - Len(itr[Len(itr)]) - 1)]

\* Url::parse
UrlParse(txt) ==
  LET itr == SplitN2(txt, SP) IN
  IF Len(itr) < 2 THEN ParseError
  ELSE [ok |-> TRUE, rest |-> itr[2], val |-> itr[1]]

\* Version::parse
VersionParse(txt) ==
  LET itr == SplitN2(txt, CRLF) IN
  IF Len(itr) < 2 THEN ParseError
  ELSE LET pre == SplitN2(itr[1], <<"H", "T", "T", "P", "/">>) IN
       IF Len(pre) < 2 THEN ParseError
       ELSE LET parts == Split(pre[2], <<".">>)
                major == ParseU8(parts[1])
            IN IF ~major.ok THEN ParseError
               ELSE IF Len(parts) < 2 THEN ParseError
               ELSE LET minor == ParseU8(parts[2]) IN
                    IF ~minor.ok THEN ParseError
                    ELSE [ok |-> TRUE, rest |-> itr[2],
                          val |-> <<major.val, minor.val>>]

\* A parse_one that takes a line without ": " as a name with an empty value.
HeadersParseOneLenient(txt) ==
  LET itr == SplitN2(txt, CRLF) IN
  IF Len(itr) < 2 THEN ParseError
  ELSE LET kv == SplitN2(itr[1], <<":", " ">>) IN
       [ok |-> TRUE, rest |-> itr[2], name |-> kv[1],
        value |-> IF Len(kv) < 2 THEN <<>> ELSE kv[2]]

\* A parse_one that splits the line at its last ": ".
HeadersParseOneLastSep(txt) ==
  LET itr == SplitN2(txt, CRLF) IN
  IF Len(itr) < 2 THEN ParseError
  ELSE LET kv == Split(itr[1], <<":", " ">>) IN
       IF Len(kv) < 2 THEN ParseError
       ELSE [ok |-> TRUE, rest |-> itr[2],
             name |-> SubSeq(itr[1], 1, Len(itr[1]) - Len(kv[Len(kv)]) - 2),
             value |-> kv[Len(kv)]]

\* Headers::parse_one
HeadersParseOne(txt) ==
  LET itr == SplitN2(txt, CRLF) IN
  IF Len(itr) < 2 THEN ParseError
  ELSE LET kv == SplitN2(itr[1], <<":", " ">>) IN
       IF Len(kv) < 2 THEN ParseError
       ELSE [ok |-> TRUE, rest |-> itr[2], name |-> kv[1], value |-> kv[2]]

\* An insert that keeps the value a name already has.
MapInsertKeepFirst(map, name, value) ==
  [n \in DOMAIN map \cup {name} |-> IF n \in DOMAIN map THEN map[n] ELSE value]

\* HashMap::insert on a map kept as a function from names to values.
MapInsert(map, name, value) ==
  [n \in DOMAIN map \cup {name} |-> IF n = name THEN value ELSE map[n]]

EmptyMap == [n \in {} |-> <<>>]

\* A loop that takes the end of the text for the end of the headers.
RECURSIVE HeadersLoopLenient(_, _)
HeadersLoopLenient(rest, headers) ==
  IF rest = <<>> THEN [ok |-> TRUE, rest |-> <<>>, val |-> headers]
  ELSE IF StartsWith(rest, CRLF)
  THEN [ok |-> TRUE, rest |-> SplitN2(rest, CRLF)[2], val |-> headers]
  ELSE LET one == HeadersParseOne(rest) IN
       IF ~one.ok THEN ParseError
       ELSE HeadersLoopLenient(one.rest, MapInsert(headers, one.name, one.value))

\* Headers::parse: the loop, with the map built so far.
RECURSIVE HeadersLoop(_, _)
HeadersLoop(rest, headers) ==
  IF StartsWith(rest, CRLF)
  THEN [ok |-> TRUE, rest |-> SplitN2(rest, CRLF)[2], val |-> headers]
  ELSE LET one == HeadersParseOne(rest) IN
       IF ~one.ok THEN ParseError
       ELSE HeadersLoop(one.rest, MapInsert(headers, one.name, one.value))

HeadersParse(txt) == HeadersLoop(txt, EmptyMap)

\* An iteration that goes round again with the text it was given.
HeadersIterationStuck(rest, headers) ==
  IF StartsWith(rest, CRLF)
  THEN [done |-> TRUE, out |-> [ok |-> TRUE, rest |-> SplitN2(rest, CRLF)[2], val |-> headers]]
  ELSE LET one == HeadersParseOne(rest) IN
       IF ~one.ok THEN [done |-> TRUE, out |-> ParseError]
       ELSE [done |-> FALSE, rest |-> rest,
             headers |-> MapInsert(headers, one.name, one.value)]

\* Headers::parse: one iteration of the loop, which returns or goes round
\* again with the text parse_one left.
HeadersIteration(rest, headers) ==
  IF StartsWith(rest, CRLF)
  THEN [done |-> TRUE, out |-> [ok |-> TRUE, rest |-> SplitN2(rest, CRLF)[2], val |-> headers]]
  ELSE LET one == HeadersParseOne(rest) IN
       IF ~one.ok THEN [done |-> TRUE, out |-> ParseError]
       ELSE [done |-> FALSE, rest |-> one.rest,
             headers |-> MapInsert(headers, one.name, one.value)]

\* Request::parse
RequestParse(raw) ==
  LET m == MethodParse(raw) IN
  IF ~m.ok THEN ParseError
  ELSE LET u == UrlParse(m.rest) IN
  IF ~u.ok THEN ParseError
  ELSE LET v == VersionParse(u.rest) IN
  IF ~v.ok THEN ParseError
  ELSE LET h == HeadersParse(v.rest) IN
  IF ~h.ok THEN ParseError
  ELSE [ok |-> TRUE,
        val |-> [method |-> m.val, url |-> u.val, version |-> v.val,
                 headers |-> h.val, body |-> h.rest]]

\* ------------------------------------------------------------- responses
\* The variants of Status.
StatusVariants ==
  {"Continue", "SwitchingProtocols", "Processing", "EarlyHints", "OK", "Created",
   "Accepted", "NonAuthoritativeInfo", "NoContent", "ResetContent", "PartialContent",
   "MultiStatus", "AlreadyReported", "IMUsed", "MultipleChoices", "MovedPermanently",
   "Found", "SeeOther", "NotModified", "UseProxy", "TemporaryRedirect",
   "PermanentRedirect", "BadRequest", "Unauthorized", "PaymentRequired", "Forbidden",
   "NotFound", "MethodNotAllowed", "NotAcceptable", "ProxyAuthRequired",
   "RequestTimeout", "Conflict", "Gone", "LengthRequired", "PreconditionFailed",
   "RequestEntityTooLarge", "RequestURITooLong", "UnsupportedMediaType",
   "RequestedRangeNotSatisfiable", "ExpectationFailed", "Teapot",
   "MisdirectedRequest", "UnprocessableEntity", "Locked", "FailedDependency",
   "TooEarly", "UpgradeRequired", "PreconditionRequired", "TooManyRequests",
   "RequestHeaderFieldsTooLarge", "UnavailableForLegalReasons", "InternalServerError",
   "NotImplemented", "BadGateway", "ServiceUnavailable", "GatewayTimeout",
   "HTTPVersionNotSupported", "VariantAlsoNegotiates", "InsufficientStorage",
   "LoopDetected", "NotExtended", "NetworkAuthenticationRequired"}

\* The enum's declaration: the number each variant is declared with.
StatusDeclared(st) ==
  [Continue |-> 100, SwitchingProtocols |-> 101, Processing |-> 102,
   EarlyHints |-> 103, OK |-> 200, Created |-> 201, Accepted |-> 202,
   NonAuthoritativeInfo |-> 203, NoContent |-> 204, ResetContent |-> 205,
   PartialContent |-> 206, MultiStatus |-> 207, AlreadyReported |-> 208,
   IMUsed |-> 226, MultipleChoices |-> 300, MovedPermanently |-> 301, Found |-> 302,
   SeeOther |-> 303, NotModified |-> 304, UseProxy |-> 305, TemporaryRedirect |-> 307,
   PermanentRedirect |-> 308, BadRequest |-> 400, Unauthorized |-> 401,
   PaymentRequired |-> 402, Forbidden |-> 403, NotFound |-> 404,
   MethodNotAllowed |-> 405, NotAcceptable |-> 406, ProxyAuthRequired |-> 407,
   RequestTimeout |-> 408, Conflict |-> 409, Gone |-> 410, LengthRequired |-> 411,
   PreconditionFailed |-> 412, RequestEntityTooLarge |-> 413,
   RequestURITooLong |-> 414, UnsupportedMediaType |-> 415,
   RequestedRangeNotSatisfiable |-> 416, ExpectationFailed |-> 417, Teapot |-> 418,
   MisdirectedRequest |-> 421, UnprocessableEntity |-> 422, Locked |-> 423,
   FailedDependency |-> 424, TooEarly |-> 425, UpgradeRequired |-> 426,
   PreconditionRequired |-> 428, TooManyRequests |-> 429,
   RequestHeaderFieldsTooLarge |-> 431, UnavailableForLegalReasons |-> 451,
   InternalServerError |-> 500, NotImplemented |-> 501, BadGateway |-> 502,
   ServiceUnavailable |-> 503, GatewayTimeout |-> 504,
   HTTPVersionNotSupported |-> 505, VariantAlsoNegotiates |-> 506,
   InsufficientStorage |-> 507, LoopDetected |-> 508, NotExtended |-> 510,
   NetworkAuthenticationRequired |-> 511][st]

\* A code() that gives Teapot the code of ExpectationFailed.
StatusCodeTeapot(st) == IF st = "Teapot" THEN 417 ELSE StatusDeclared(st)

\* Status::code
StatusCodeU16(st) ==
  [Continue |-> 100, SwitchingProtocols |-> 101, Processing |-> 102,
   EarlyHints |-> 103, OK |-> 200, Created |-> 201, Accepted |-> 202,
   NonAuthoritativeInfo |-> 203, NoContent |-> 204, ResetContent |-> 205,
   PartialContent |-> 206, MultiStatus |-> 207, AlreadyReported |-> 208,
   IMUsed |-> 226, MultipleChoices |-> 300, MovedPermanently |-> 301, Found |-> 302,
   SeeOther |-> 303, NotModified |-> 304, UseProxy |-> 305, TemporaryRedirect |-> 307,
   PermanentRedirect |-> 308, BadRequest |-> 400, Unauthorized |-> 401,
   PaymentRequired |-> 402, Forbidden |-> 403, NotFound |-> 404,
   MethodNotAllowed |-> 405, NotAcceptable |-> 406, ProxyAuthRequired |-> 407,
   RequestTimeout |-> 408, Conflict |-> 409, Gone |-> 410, LengthRequired |-> 411,
   PreconditionFailed |-> 412, RequestEntityTooLarge |-> 413,
   RequestURITooLong |-> 414, UnsupportedMediaType |-> 415,
   RequestedRangeNotSatisfiable |-> 416, ExpectationFailed |-> 417, Teapot |-> 418,
   MisdirectedRequest |-> 421, UnprocessableEntity |-> 422, Locked |-> 423,
   FailedDependency |-> 424, TooEarly |-> 425, UpgradeRequired |-> 426,
   PreconditionRequired |-> 428, TooManyRequests |-> 429,
   RequestHeaderFieldsTooLarge |-> 431, UnavailableForLegalReasons |-> 451,
   InternalServerError |-> 500, NotImplemented |-> 501, BadGateway |-> 502,
   ServiceUnavailable |-> 503, GatewayTimeout |-> 504,
   HTTPVersionNotSupported |-> 505, VariantAlsoNegotiates |-> 506,
   InsufficientStorage |-> 507, LoopDetected |-> 508, NotExtended |-> 510,
   NetworkAuthenticationRequired |-> 511][st]

\* A u16 as `{}` writes it.
RECURSIVE U16ToString(_)
U16ToString(n) ==
  IF n < 10 THEN <<Digits[n + 1]>> ELSE U16ToString(n \div 10) \o <<Digits[(n % 10) + 1]>>

\* Status::code as Display writes it, and Status::text.
StatusCode(st) == U16ToString(StatusCodeU16(st))
StatusText(st) ==
  [Continue |-> <<"C", "o", "n", "t", "i", "n", "u", "e">>,
   SwitchingProtocols |-> <<"S", "w", "i", "t", "c", "h", "i", "n", "g", " ", "P", "r", "o", "t", "o", "c", "o", "l", "s">>,
   Processing |-> <<"P", "r", "o", "c", "e", "s", "s", "i", "n", "g">>,
   EarlyHints |-> <<"E", "a", "r", "l", "y", " ", "H", "i", "n", "t", "s">>,
   OK |-> <<"O", "K">>,
   Created |-> <<"C", "r", "e", "a", "t", "e", "d">>,
   Accepted |-> <<"A", "c", "c", "e", "p", "t", "e", "d">>,
   NonAuthoritativeInfo |-> <<"N", "o", "n", "-", "A", "u", "t", "h", "o", "r", "i", "t", "a", "t", "i", "v", "e", " ", "I", "n", "f", "o", "r", "m", "a", "t", "i", "o", "n">>,
   NoContent |-> <<"N", "o", " ", "C", "o", "n", "t", "e", "n", "t">>,
   ResetContent |-> <<"R", "e", "s", "e", "t", " ", "C", "o", "n", "t", "e", "n", "t">>,
   PartialContent |-> <<"P", "a", "r", "t", "i", "a", "l", " ", "C", "o", "n", "t", "e", "n", "t">>,
   MultiStatus |-> <<"M", "u", "l", "t", "i", "-", "S", "t", "a", "t", "u", "s">>,
   AlreadyReported |-> <<"A", "l", "r", "e", "a", "d", "y", " ", "R", "e", "p", "o", "r", "t", "e", "d">>,
   IMUsed |-> <<"I", "M", " ", "U", "s", "e", "d">>,
   MultipleChoices |-> <<"M", "u", "l", "t", "i", "p", "l", "e", " ", "C", "h", "o", "i", "c", "e", "s">>,
   MovedPermanently |-> <<"M", "o", "v", "e", "d", " ", "P", "e", "r", "m", "a", "n", "e", "n", "t", "l", "y">>,
   Found |-> <<"F", "o", "u", "n", "d">>,
   SeeOther |-> <<"S", "e", "e", " ", "O", "t", "h", "e", "r">>,
   NotModified |-> <<"N", "o", "t", " ", "M", "o", "d", "i", "f", "i", "e", "d">>,
   UseProxy |-> <<"U", "s", "e", " ", "P", "r", "o", "x", "y">>,
   TemporaryRedirect |-> <<"T", "e", "m", "p", "o", "r", "a", "r", "y", " ", "R", "e", "d", "i", "r", "e", "c", "t">>,
   PermanentRedirect |-> <<"P", "e", "r", "m", "a", "n", "e", "n", "t", " ", "R", "e", "d", "i", "r", "e", "c", "t">>,
   BadRequest |-> <<"B", "a", "d", " ", "R", "e", "q", "u", "e", "s", "t">>,
   Unauthorized |-> <<"U", "n", "a", "u", "t", "h", "o", "r", "i", "z", "e", "d">>,
   PaymentRequired |-> <<"P", "a", "y", "m", "e", "n", "t", " ", "R", "e", "q", "u", "i", "r", "e", "d">>,
   Forbidden |-> <<"F", "o", "r", "b", "i", "d", "d", "e", "n">>,
   NotFound |-> <<"N", "o", "t", " ", "F", "o", "u", "n", "d">>,
   MethodNotAllowed |-> <<"M", "e", "t", "h", "o", "d", " ", "N", "o", "t", " ", "A", "l", "l", "o", "w", "e", "d">>,
   NotAcceptable |-> <<"N", "o", "t", " ", "A", "c", "c", "e", "p", "t", "a", "b", "l", "e">>,
   ProxyAuthRequired |-> <<"P", "r", "o", "x", "y", " ", "A", "u", "t", "h", "e", "n", "t", "i", "c", "a", "t", "i", "o", "n", " ", "R", "e", "q", "u", "i", "r", "e", "d">>,
   RequestTimeout |-> <<"R", "e", "q", "u", "e", "s", "t", " ", "T", "i", "m", "e", "o", "u", "t">>,
   Conflict |-> <<"C", "o", "n", "f", "l", "i", "c", "t">>,
   Gone |-> <<"G", "o", "n", "e">>,
   LengthRequired |-> <<"L", "e", "n", "g", "t", "h", " ", "R", "e", "q", "u", "i", "r", "e", "d">>,
   PreconditionFailed |-> <<"P", "r", "e", "c", "o", "n", "d", "i", "t", "i", "o", "n", " ", "F", "a", "i", "l", "e", "d">>,
   RequestEntityTooLarge |-> <<"P", "a", "y", "l", "o", "a", "d", " ", "T", "o", "o", " ", "L", "a", "r", "g", "e">>,
   RequestURITooLong |-> <<"U", "R", "I", " ", "T", "o", "o", " ", "L", "o", "n", "g">>,
   UnsupportedMediaType |-> <<"U", "n", "s", "u", "p", "p", "o", "r", "t", "e", "d", " ", "M", "e", "d", "i", "a", " ", "T", "y", "p", "e">>,
   RequestedRangeNotSatisfiable |-> <<"R", "a", "n", "g", "e", " ", "N", "o", "t", " ", "S", "a", "t", "i", "s", "f", "i", "a", "b", "l", "e">>,
   ExpectationFailed |-> <<"E", "x", "p", "e", "c", "t", "a", "t", "i", "o", "n", " ", "F", "a", "i", "l", "e", "d">>,
   Teapot |-> <<"I", "'", "m", " ", "a", " ", "t", "e", "a", "p", "o", "t">>,
   MisdirectedRequest |-> <<"M", "i", "s", "d", "i", "r", "e", "c", "t", "e", "d", " ", "R", "e", "q", "u", "e", "s", "t">>,
   UnprocessableEntity |-> <<"U", "n", "p", "r", "o", "c", "e", "s", "s", "a", "b", "l", "e", " ", "E", "n", "t", "i", "t", "y">>,
   Locked |-> <<"L", "o", "c", "k", "e", "d">>,
   FailedDependency |-> <<"F", "a", "i", "l", "e", "d", " ", "D", "e", "p", "e", "n", "d", "e", "n", "c", "y">>,
   TooEarly |-> <<"T", "o", "o", " ", "E", "a", "r", "l", "y">>,
   UpgradeRequired |-> <<"U", "p", "g", "r", "a", "d", "e", " ", "R", "e", "q", "u", "i", "r", "e", "d">>,
   PreconditionRequired |-> <<"P", "r", "e", "c", "o", "n", "d", "i", "t", "i", "o", "n", " ", "R", "e", "q", "u", "i", "r", "e", "d">>,
   TooManyRequests |-> <<"T", "o", "o", " ", "M", "a", "n", "y", " ", "R", "e", "q", "u", "e", "s", "t", "s">>,
   RequestHeaderFieldsTooLarge |-> <<"R", "e", "q", "u", "e", "s", "t", " ", "H", "e", "a", "d", "e", "r", " ", "F", "i", "e", "l", "d", "s", " ", "T", "o", "o", " ", "L", "a", "r", "g", "e">>,
   UnavailableForLegalReasons |-> <<"U", "n", "a", "v", "a", "i", "l", "a", "b", "l", "e", " ", "F", "o", "r", " ", "L", "e", "g", "a", "l", " ", "R", "e", "a", "s", "o", "n", "s">>,
   InternalServerError |-> <<"I", "n", "t", "e", "r", "n", "a", "l", " ", "S", "e", "r", "v", "e", "r", " ", "E", "r", "r", "o", "r">>,
   NotImplemented |-> <<"N", "o", "t", " ", "I", "m", "p", "l", "e", "m", "e", "n", "t", "e", "d">>,
   BadGateway |-> <<"B", "a", "d", " ", "G", "a", "t", "e", "w", "a", "y">>,
   ServiceUnavailable |-> <<"S", "e", "r", "v", "i", "c", "e", " ", "U", "n", "a", "v", "a", "i", "l", "a", "b", "l", "e">>,
   GatewayTimeout |-> <<"G", "a", "t", "e", "w", "a", "y", " ", "T", "i", "m", "e", "o", "u", "t">>,
   HTTPVersionNotSupported |-> <<"H", "T", "T", "P", " ", "V", "e", "r", "s", "i", "o", "n", " ", "N", "o", "t", " ", "S", "u", "p", "p", "o", "r", "t", "e", "d">>,
   VariantAlsoNegotiates |-> <<"V", "a", "r", "i", "a", "n", "t", " ", "A", "l", "s", "o", " ", "N", "e", "g", "o", "t", "i", "a", "t", "e", "s">>,
   InsufficientStorage |-> <<"I", "n", "s", "u", "f", "f", "i", "c", "i", "e", "n", "t", " ", "S", "t", "o", "r", "a", "g", "e">>,
   LoopDetected |-> <<"L", "o", "o", "p", " ", "D", "e", "t", "e", "c", "t", "e", "d">>,
   NotExtended |-> <<"N", "o", "t", " ", "E", "x", "t", "e", "n", "d", "e", "d">>,
   NetworkAuthenticationRequired |-> <<"N", "e", "t", "w", "o", "r", "k", " ", "A", "u", "t", "h", "e", "n", "t", "i", "c", "a", "t", "i", "o", "n", " ", "R", "e", "q", "u", "i", "r", "e", "d">>][st]

\* Default for Status
StatusDefault == "OK"

\* Display for Status
StatusToString(st) == StatusCode(st) \o SP \o StatusText(st)

\* Display for Version
VersionToString(v) == <<"H", "T", "T", "P", "/", Digits[v[1] + 1], ".", Digits[v[2] + 1]>>

\* buffer_to_str as Display for Response uses it: the body as text when it is
\* text, nothing otherwise.
BufferToStr(body) ==
  IF \E i \in 1..Len(body) : body[i] = "0xFF" THEN [some |-> FALSE]
  ELSE [some |-> TRUE, val |-> body]

RECURSIVE HeaderLines(_, _)
HeaderLines(headers, order) ==
  IF order = <<>> THEN <<>>
  ELSE order[1] \o <<":", " ">> \o headers[order[1]] \o <<"\n">>
       \o HeaderLines(headers, Tail(order))

\* Display for Response; order is the order in which the map yields its keys.
ResponseToString(r, order) ==
  LET head == VersionToString(r.version) \o SP \o StatusToString(r.status) \o <<"\n">>
              \o HeaderLines(r.headers, order) \o <<"\n">>
      txt == BufferToStr(r.body)
  IN IF Len(r.body) > 0 /\ txt.some THEN head \o txt.val ELSE head

\* Response::as_bytes
AsBytes(r, order) == ResponseToString(r, order) \o r.body

\* The orders in which a map can yield its keys.
KeyOrders(map) ==
  {o \in [1..Cardinality(DOMAIN map) -> DOMAIN map] :
     \A i, j \in DOMAIN o : i # j => o[i] # o[j]}

\* ---------------------------------------------------------------- inputs
\* What the single read of a connection can return.
ReqGet ==
  <<"G", "E", "T", " ", "/", "p", " ", "H", "T", "T", "P", "/", "1", ".", "1",
    "\r", "\n", "H", ":", " ", "t", "\r", "\n", "\r", "\n">>
ReqFrob ==
  <<"F", "R", "O", "B", " ", "/", "p", " ", "H", "T", "T", "P", "/", "1", ".", "1",
    "\r", "\n", "\r", "\n">>
Arrivals == {ReqGet, ReqFrob}

\* What the handler of the model can return: a response, or an error.
Pong ==
  [status |-> "OK", version |-> <<1, 1>>,
   headers |-> [n \in {<<"T">>} |-> <<"x">>],
   body |-> <<"p", "o", "n", "g">>]
NoResponse == [status |-> "none"]
HandlerErr == [status |-> "err"]
HandlerResults == {Pong, HandlerErr}

\* ----------------------------------------------------------- socket layer
\* sk.open: the descriptors the process holds open; for each Socket value s,
\* sk.fd[s] its descriptor (0: not created), sk.live[s] whether the value
\* exists, sk.closes[s] the close calls made through it.

\* socket(2) and accept(2) hand out the lowest descriptor not in use.
LowestFree(open) == CHOOSE f \in Fds \ open : \A g \in Fds \ open : f <= g

\* Socket::new, Socket::accept: a new Socket value around a new descriptor.
SocketCreate(st, s) ==
  LET f == LowestFree(st.open) IN
  [st EXCEPT !.open = @ \cup {f}, !.fd[s] = f, !.live[s] = "live"]

\* Socket::close: close(self.0); the value itself stays usable.
SocketClose(st, s) ==
  [st EXCEPT !.open = @ \ {st.fd[s]}, !.closes[s] = @ + 1]

\* The close of Socket::close fails (EBADF) when the number is not open.
SocketCloseFails(st, s) == st.fd[s] \notin st.open

\* A drop that forgets the descriptor instead of closing it.
SocketDropLeak(st, s) == [st EXCEPT !.live[s] = "dropped"]

\* Drop for Socket: self.close().unwrap()
SocketDrop(st, s) == [SocketClose(st, s) EXCEPT !.live[s] = "dropped"]

RECURSIVE SocketDropAll(_, _)
SocketDropAll(st, S) ==
  IF S = {} THEN st
  ELSE LET s == CHOOSE x \in S : TRUE IN SocketDropAll(SocketDrop(st, s), S \ {s})

\* ------------------------------------------------------------------ state
VARIABLES
  sk,      \* the socket layer
  main,    \* the thread running Server::serve
  queue,   \* the mpsc channel of the pool: messages sent and not yet received
  lock,    \* the Mutex around the Receiver
  worker,  \* the worker threads
  conn     \* the accepted connections and their jobs

vars == <<sk, main, queue, lock, worker, conn>>

NewJob(c) == [type |-> "NewJob", job |-> c]
Terminate == [type |-> "Terminate", job |-> 0]

Ended == {"exited", "panicked"}

\* The Receiver lives as long as one worker thread holds its Arc.
ReceiverAlive(wk) == \E w \in Workers : wk[w].state \notin Ended

QueuedJobs(q) == {q[i].job : i \in {j \in 1..Len(q) : q[j].type = "NewJob"}}

\* A channel that hands out the newest message first.
SendFront(q, m) == <<m>> \o q

\* mpsc::Sender::send on a live channel
Send(q, m) == Append(q, m)

\* A channel of capacity zero: send waits until a receiver is waiting.
CanSendRendezvous(q, wk) == \E w \in DOMAIN wk : wk[w].state = "idle"

\* mpsc::channel(): the queue is unbounded, send never waits for room.
CanSend(q, wk) == TRUE

\* A receive that takes the newest message.
RecvLast(q) == [msg |-> q[Len(q)], rest |-> SubSeq(q, 1, Len(q) - 1)]

\* A recv that leaves the message in the channel.
RecvKeep(q) == [msg |-> Head(q), rest |-> q]

\* mpsc::Receiver::recv on a non-empty channel
Recv(q) == [msg |-> Head(q), rest |-> Tail(q)]

\* An execute that sends the job twice.
ExecuteTwice(q, c) == Append(Append(q, NewJob(c)), NewJob(c))

\* ThreadPool::execute on a live channel
Execute(q, c) == Send(q, NewJob(c))

\* Drop for ThreadPool: one Terminate per element of self.workers
TerminateCount == NumWorkers

NoConn ==
  [pc |-> "none", starts |-> 0,
   trace |-> <<>>, read |-> "none", parse |-> "none", handle |-> "none",
   write |-> "none", rx |-> <<>>, resp |-> NoResponse, written |-> <<>>]

SockInit ==
  [open |-> {}, fd |-> [s \in Socks |-> 0], live |-> [s \in Socks |-> "none"],
   closes |-> [s \in Socks |-> 0]]

\* Server::bind has made the listener; Server::serve has made the pool
\* (ThreadPool::new: every worker thread spawned, none has locked yet).
Init ==
  /\ sk = SocketCreate(SockInit, 0)
  /\ main = [pc |-> "accept", accepted |-> 0, termSent |-> 0, joinIdx |-> 1]
  /\ queue = <<>>
  /\ lock = [holder |-> 0]
  /\ worker = [w \in Workers |-> [state |-> "idle", job |-> 0, terms |-> 0]]
  /\ conn = [c \in Conns |-> NoConn]

\* The end of a thread drops its Arc; with the last one the Receiver goes and
\* with it every message still queued: the jobs are dropped unexecuted and so
\* are the streams they own.
Settle(wk2, q2, cn2, sk2) ==
  IF ReceiverAlive(wk2)
  THEN /\ worker' = wk2 /\ queue' = q2 /\ conn' = cn2 /\ sk' = sk2
  ELSE LET D == QueuedJobs(q2) IN
       /\ worker' = wk2
       /\ queue' = <<>>
       /\ conn' = [c \in Conns |->
                     IF c \in D THEN [cn2[c] EXCEPT !.pc = "discarded"] ELSE cn2[c]]
       /\ sk' = SocketDropAll(sk2, D)

\* ------------------------------------------------------------ accept loop
\* One turn of the loop of Server::serve: Incoming::next accepts, resolves the
\* peer address, and serve submits the job that owns the stream.
Submit(c) ==
  IF ReceiverAlive(worker)
  THEN /\ queue' = Execute(queue, c)
       /\ conn' = [conn EXCEPT ![c].pc = "queued"]
       /\ sk' = SocketCreate(sk, c)
       /\ main' = [main EXCEPT !.accepted = c]
  ELSE \* send fails: unwrap panics and drops the job with its stream; the
       \* unwinding drops the pool, whose own send(..).unwrap() panics again.
       /\ queue' = queue
       /\ conn' = [conn EXCEPT ![c].pc = "discarded"]
       /\ sk' = SocketDrop(SocketCreate(sk, c), c)
       /\ main' = [main EXCEPT !.accepted = c, !.pc = "aborted"]

Accept ==
  /\ main.pc = "accept"
  /\ main.accepted < MaxConns
  /\ Fds \ sk.open # {}
  /\ CanSend(queue, worker)
  /\ Submit(main.accepted + 1)
  /\ UNCHANGED <<lock, worker>>

\* TcpListener::accept: the socket is accepted, get_peer_name fails, the new
\* Socket is dropped and the error ends serve, which drops the pool.
AcceptPeerErr ==
  /\ main.pc = "accept"
  /\ main.accepted < MaxConns
  /\ Fds \ sk.open # {}
  /\ LET c == main.accepted + 1 IN
     /\ sk' = SocketDrop(SocketCreate(sk, c), c)
     /\ conn' = [conn EXCEPT ![c].pc = "refused"]
     /\ main' = [main EXCEPT !.accepted = c, !.pc = "drop_send"]
  /\ UNCHANGED <<queue, lock, worker>>

\* accept itself fails: `stream?` returns the error and the pool is dropped.
AcceptErr ==
  /\ main.pc = "accept"
  /\ main' = [main EXCEPT !.pc = "drop_send"]
  /\ UNCHANGED <<sk, queue, lock, worker, conn>>

\* Drop for ThreadPool, first loop: one send(Message::Terminate).unwrap().
DropSend ==
  /\ main.pc = "drop_send"
  /\ IF ReceiverAlive(worker)
     THEN /\ queue' = Send(queue, Terminate)
          /\ main' = [main EXCEPT !.termSent = @ + 1,
                        !.pc = IF main.termSent + 1 >= TerminateCount
                               THEN "drop_join" ELSE "drop_send"]
     ELSE /\ queue' = queue
          /\ main' = [main EXCEPT !.pc = "panicked"]
  /\ UNCHANGED <<sk, lock, worker, conn>>

\* Drop for ThreadPool, second loop: thread.join().unwrap() on the next
\* worker; it blocks while that thread runs and panics if that thread did.
DropJoin ==
  /\ main.pc = "drop_join"
  /\ LET w == main.joinIdx IN
     /\ worker[w].state \in Ended
     /\ main' = IF worker[w].state = "panicked"
                THEN [main EXCEPT !.pc = "panicked"]
                ELSE IF w = NumWorkers
                THEN [main EXCEPT !.pc = "returned"]
                ELSE [main EXCEPT !.joinIdx = w + 1]
  /\ UNCHANGED <<sk, queue, lock, worker, conn>>

\* ---------------------------------------------------------------- workers
\* After a job the worker loops; a job that panicked has ended the thread.
AfterJob(panicked) == IF panicked THEN "panicked" ELSE "idle"

\* What the worker does after Message::Terminate: break.
AfterTerminate == "exited"

\* A guard that lives on through the match, as with `while let Ok(message) =
\* receiver.lock().unwrap().recv()`.
LockHeldThroughMatch(w) == w

\* The guard of receiver.lock() is a temporary of the `let message`
\* statement: the lock is released when the message has been received,
\* before the match looks at it.
LockAfterRecv(w) == 0

\* `let message = receiver.lock().expect(..).recv().unwrap()` and the match
\* on the message. The worker that holds the lock waits in recv and the
\* others wait for the lock, so a message goes to whichever idle worker
\* holds the lock when it arrives: lock, recv and unlock are one step, taken
\* when there is a message. (The Sender lives until Drop for ThreadPool has
\* sent every Terminate, so a worker never finds the channel disconnected,
\* and no thread panics with the guard alive, so the mutex is never poisoned.)
WorkerRecv(w) ==
  /\ worker[w].state = "idle"
  /\ lock.holder = 0
  /\ queue # <<>>
  /\ LET r == Recv(queue)
         c == r.msg.job
     IN IF r.msg.type = "NewJob"
        THEN /\ worker' = [worker EXCEPT ![w].state = "job", ![w].job = c]
             /\ queue' = r.rest
             /\ conn' = [conn EXCEPT ![c].pc = "read", ![c].starts = @ + 1]
             /\ sk' = sk
        ELSE Settle([worker EXCEPT ![w].state = AfterTerminate, ![w].terms = @ + 1],
                    r.rest, conn, sk)
  /\ lock' = [lock EXCEPT !.holder = LockAfterRecv(w)]
  /\ UNCHANGED main

\* -------------------------------------------------------------------- job
Running(w, pc) ==
  /\ worker[w].state = "job"
  /\ conn[worker[w].job].pc = pc

\* The read buffer after a read that returned txt: txt, then the zeros the
\* buffer was made with; read_from_client parses all of it.
RawRequest(txt) ==
  [i \in 1..BufLen |-> IF i <= Len(txt) THEN txt[i] ELSE NUL]

\* What read_from_client makes of each text the read can return.
Parsed == [txt \in Arrivals |-> RequestParse(RawRequest(txt))]

\* A job that goes on to the handler whatever the parse gave.
AfterParseAlways(ok) == "handle"

\* The `?` after read_from_client and after handle_fn: the job goes on when
\* the value is Ok and returns the error otherwise.
AfterParse(ok) == IF ok THEN "handle" ELSE "end"
AfterHandle(ok) == IF ok THEN "write" ELSE "end"

\* The job is over (it returned, or it is unwinding): the closure and the
\* stream it owns are dropped, which closes the socket; then the worker loops
\* or, after a panic, its thread ends. cn2: the connections as the job's last
\* step leaves them.
JobEnd(w, cn2, panic) ==
  LET c == worker[w].job
      panicked == panic \/ SocketCloseFails(sk, c)
  IN Settle([worker EXCEPT ![w].state = AfterJob(panicked), ![w].job = 0],
            queue,
            [cn2 EXCEPT ![c].trace = @ \o <<"close">>, ![c].pc = "done"],
            SocketDrop(sk, c))

\* A step of the job of worker w that leaves the connections as cn2.
JobStep(w, cn2, panic) ==
  IF cn2[worker[w].job].pc = "end"
  THEN JobEnd(w, cn2, panic)
  ELSE /\ conn' = cn2
       /\ UNCHANGED <<sk, queue, worker>>

\* read_from_client: the one read, then Request::parse of the buffer. The
\* read blocks until the client has sent something: the step is taken when
\* txt arrives, and no timeout takes it otherwise.
JobRead(w, txt) ==
  /\ Running(w, "read")
  /\ LET c == worker[w].job
         p == Parsed[txt]
     IN JobStep(w, [conn EXCEPT ![c].trace = @ \o <<"read", "parse">>,
                                ![c].read = "ok", ![c].rx = txt,
                                ![c].parse = IF p.ok THEN "ok" ELSE "err",
                                ![c].pc = AfterParse(p.ok)], FALSE)
  /\ UNCHANGED <<main, lock>>

\* The read fails: expect("reading failed") panics.
JobReadErr(w) ==
  /\ Running(w, "read")
  /\ LET c == worker[w].job IN
     JobStep(w, [conn EXCEPT ![c].trace = @ \o <<"read">>, ![c].read = "err",
                             ![c].pc = "end"], TRUE)
  /\ UNCHANGED <<main, lock>>

\* handle_fn(request)?
JobHandle(w, res) ==
  /\ Running(w, "handle")
  /\ LET c == worker[w].job
         ok == res # HandlerErr
     IN JobStep(w, [conn EXCEPT ![c].trace = @ \o <<"handle">>,
                                ![c].handle = IF ok THEN "ok" ELSE "err",
                                ![c].resp = IF ok THEN res ELSE NoResponse,
                                ![c].pc = AfterHandle(ok)], FALSE)
  /\ UNCHANGED <<main, lock>>

\* How many bytes of a write_all reach the client: all of them, or, when a
\* write fails, a part.
Delivered(bytes) == {Len(bytes) \div 2, Len(bytes)}

\* respond_to_client: response.as_bytes(), then write_all; then the job
\* returns.
JobWrite(w) ==
  /\ Running(w, "write")
  /\ LET c == worker[w].job IN
     \E order \in KeyOrders(conn[c].resp.headers) :
     LET bytes == AsBytes(conn[c].resp, order) IN
     \E sent \in Delivered(bytes) :
        JobStep(w, [conn EXCEPT ![c].trace = @ \o <<"serialize", "write">>,
                                ![c].write = IF sent = Len(bytes) THEN "ok" ELSE "err",
                                ![c].written = @ \o SubSeq(bytes, 1, sent),
                                ![c].pc = "end"], FALSE)
  /\ UNCHANGED <<main, lock>>

\* ---------------------------------------------------------- specification
Next ==
  \/ Accept
  \/ AcceptPeerErr
  \/ AcceptErr
  \/ DropSend
  \/ DropJoin
  \/ \E w \in Workers : WorkerRecv(w)
  \/ \E w \in Workers, txt \in Arrivals : JobRead(w, txt)
  \/ \E w \in Workers : JobReadErr(w)
  \/ \E w \in Workers, res \in HandlerResults : JobHandle(w, res)
  \/ \E w \in Workers : JobWrite(w)

Spec == Init /\ [][Next]_vars

\* Fairness: every thread that can take a step is scheduled; a read, a
\* handler call and a write that a job is in come to an end (every job
\* terminates). Nothing makes clients connect or accept fail.
WorkerStep(w) ==
  \/ WorkerRecv(w)
  \/ \E txt \in Arrivals : JobRead(w, txt)
  \/ JobReadErr(w)
  \/ \E res \in HandlerResults : JobHandle(w, res)
  \/ JobWrite(w)

FairSpec ==
  /\ Init /\ [][Next]_vars
  /\ \A w \in Workers : WF_vars(WorkerStep(w))
  /\ WF_vars(DropSend)
  /\ WF_vars(DropJoin)

\* --------------------------------------------- the socket type on its own
\* A caller of the public socket operations: Socket::new / Socket::accept,
\* Socket::close (TcpStream::close in net/mod.rs), and letting a Socket go
\* out of scope.
MaxCloses == 2

ApiNew(s) ==
  /\ sk.live[s] = "none"
  /\ Fds \ sk.open # {}
  /\ sk' = SocketCreate(sk, s)
  /\ UNCHANGED <<main, queue, lock, worker, conn>>

ApiClose(s) ==
  /\ sk.live[s] = "live"
  /\ sk.closes[s] < MaxCloses
  /\ sk' = SocketClose(sk, s)
  /\ UNCHANGED <<main, queue, lock, worker, conn>>

\* Drop for Socket; the unwrap panics the caller when close fails.
ApiDrop(s) ==
  /\ sk.live[s] = "live"
  /\ sk' = SocketDrop(sk, s)
  /\ main' = IF SocketCloseFails(sk, s) THEN [main EXCEPT !.pc = "panicked"] ELSE main
  /\ UNCHANGED <<queue, lock, worker, conn>>

SockSpecInit ==
  /\ sk = SockInit
  /\ main = [pc |-> "api", accepted |-> 0, termSent |-> 0, joinIdx |-> 1]
  /\ queue = <<>>
  /\ lock = [holder |-> 0]
  /\ worker = [w \in Workers |-> [state |-> "idle", job |-> 0, terms |-> 0]]
  /\ conn = [c \in Conns |-> NoConn]

SockNext ==
  \/ \E s \in Socks : ApiNew(s)
  \/ \E s \in Socks : ApiClose(s)
  \/ \E s \in Socks : ApiDrop(s)

SockSpec == SockSpecInit /\ [][SockNext]_vars

\* ================================================================= claims
Executing == {c \in Conns : conn[c].pc \in {"read", "handle", "write"}}
RunningOn(c) == {w \in Workers : worker[w].state = "job" /\ worker[w].job = c}
InQueue(c) == Cardinality({i \in 1..Len(queue) : queue[i] = NewJob(c)})
Submitted == {c \in Conns : conn[c].pc \notin {"none", "refused"}}
AnyPanic == \E c \in Conns : conn[c].read = "err"
Has(c, step) == \E i \in 1..Len(conn[c].trace) : conn[c].trace[i] = step

\* C1: no job is executed more than once, no queued message goes to two
\* workers, and at no instant are more than NumWorkers jobs executing.
C1_ExactlyOnceAtMostN ==
  /\ \A c \in Conns : conn[c].starts <= 1
  /\ \A c \in Conns : Cardinality(RunningOn(c)) <= 1
  /\ Cardinality(Executing) <= NumWorkers

\* NumWorkers jobs execute at once while a further job waits in the queue.
C1_Witness ==
  /\ Cardinality(Executing) = NumWorkers
  /\ \E c \in Conns : conn[c].pc = "queued"

\* C2: under fair scheduling, with jobs that each come to an end, every
\* submitted job is eventually executed.
C2_EveryJobRuns ==
  \A c \in Conns : (conn[c].pc = "queued") ~> (conn[c].starts > 0)

\* The same, for the behaviours in which no job ends by a panic.
C2_EveryJobRunsUnlessPanic ==
  \A c \in Conns : (conn[c].pc = "queued") ~> (conn[c].starts > 0 \/ AnyPanic)

\* C3: a failure inside one connection's job affects only that connection:
\* the accept loop is not brought down and no other submitted job is lost.
C3_FailureIsolated ==
  /\ main.pc # "aborted"
  /\ \A c \in Conns : conn[c].pc # "discarded"

\* C4: the steps of a job come in the order read, parse, handle, serialize,
\* write, close, each at most once; a job that has ended did one read; the
\* handler runs only after a successful parse; bytes are written only after
\* the handler returned a response; nothing follows the close.
Steps == <<"read", "parse", "handle", "serialize", "write", "close">>
StepPos(step) == CHOOSE i \in 1..Len(Steps) : Steps[i] = step

C4_StepsInOrder ==
  \A c \in Conns :
    LET t == conn[c].trace IN
    /\ \A i, j \in 1..Len(t) : i < j => StepPos(t[i]) < StepPos(t[j])
    /\ t # <<>> => t[1] = "read"
    /\ conn[c].pc = "done" => Has(c, "read")
    /\ Has(c, "handle") => conn[c].parse = "ok" /\ Has(c, "parse")
    /\ Has(c, "write") => conn[c].handle = "ok" /\ conn[c].resp # NoResponse
                          /\ Has(c, "serialize")
    /\ conn[c].written # <<>> => Has(c, "write")
    /\ Has(c, "close") <=> conn[c].pc = "done"

\* A job has gone through all six steps.
C4_Witness == \E c \in Conns : conn[c].trace = Steps

\* C5: when the parse fails (the method token FROB is such a request) or the
\* handler returns an error, the job ends without a byte written: the client
\* sees the connection closed and no response.
C5_NoResponseOnFailure ==
  \A c \in Conns :
    /\ conn[c].rx = ReqFrob => conn[c].parse = "err"
    /\ conn[c].parse = "err" \/ conn[c].handle = "err" =>
         /\ conn[c].written = <<>>
         /\ ~Has(c, "write")
         /\ conn[c].pc = "done"
         /\ sk.live[c] = "dropped"

\* One job has ended on the FROB request and one on a handler error.
C5_Witness ==
  \E c, d \in Conns :
    /\ conn[c].rx = ReqFrob /\ conn[c].pc = "done"
    /\ conn[d].handle = "err" /\ conn[d].pc = "done"

\* C6: a Terminate is never taken while a job waits in the queue, and when
\* teardown has returned every submitted job has been dequeued and executed.
C6_JobsBeforeTerminate ==
  /\ (\E w \in Workers : worker[w].terms > 0) =>
       /\ QueuedJobs(queue) = {}
       /\ \A c \in Conns : conn[c].pc # "queued"
  /\ \A i, j \in 1..Len(queue) :
       i < j /\ queue[i] = Terminate => queue[j] = Terminate
  /\ main.pc = "returned" => \A c \in Submitted : conn[c].pc = "done"

\* Teardown has sent a Terminate while a job still waits in front of it.
C6_Witness ==
  /\ main.pc \in {"drop_send", "drop_join"}
  /\ \E i, j \in 1..Len(queue) :
       i < j /\ queue[i].type = "NewJob" /\ queue[j] = Terminate

\* C7: teardown sends NumWorkers Terminate messages; no worker takes two;
\* when teardown has returned every worker has taken one and has exited and
\* none is left in the queue; and, every job terminating, a teardown that
\* has begun returns.
TerminatesQueued == Cardinality({i \in 1..Len(queue) : queue[i] = Terminate})
TerminatesTaken(w) == worker[w].terms

C7_Safe ==
  /\ main.termSent <= NumWorkers
  /\ main.pc \in {"drop_join", "returned"} => main.termSent = NumWorkers
  /\ \A w \in Workers :
       /\ TerminatesTaken(w) <= 1
       /\ TerminatesTaken(w) = 1 <=> worker[w].state = "exited"
  /\ main.pc = "returned" =>
       /\ \A w \in Workers : worker[w].state = "exited" /\ TerminatesTaken(w) = 1
       /\ TerminatesQueued = 0

C7_TeardownDone ==
  /\ main.pc = "returned"
  /\ \A w \in Workers : worker[w].state = "exited" /\ TerminatesTaken(w) = 1

C7_TeardownReturns ==
  /\ []C7_Safe
  /\ (main.pc = "drop_send") ~> C7_TeardownDone

\* The same, for the behaviours in which no job ends by a panic.
C7_TeardownReturnsUnlessPanic ==
  /\ []C7_Safe
  /\ (main.pc = "drop_send") ~> (C7_TeardownDone \/ AnyPanic)

\* C8: an accepted connection is one job: it is in the queue once or was
\* dequeued once, never both; while it runs exactly one worker runs it, and
\* only a step of that worker moves it.
C8_Inv ==
  \A c \in Conns :
    /\ c \in Submitted /\ conn[c].pc # "discarded" => InQueue(c) + conn[c].starts = 1
    /\ c \notin Submitted \/ conn[c].pc = "discarded" =>
         InQueue(c) = 0 /\ conn[c].starts = 0
    /\ c \in Executing <=> Cardinality(RunningOn(c)) = 1
    /\ Cardinality(RunningOn(c)) <= 1

C8_OneJobOneWorker ==
  /\ []C8_Inv
  /\ [][\A c \in Conns :
          conn'[c].trace # conn[c].trace =>
            \E w \in Workers : RunningOn(c) = {w} /\ worker'[w].job \in {0, c}]_vars

\* Two connections have been handled to the end and a third is being
\* handled.
C8_Witness ==
  \E c, d, e \in Conns :
    /\ c # d
    /\ conn[c].pc = "done" /\ conn[d].pc = "done"
    /\ e \in Executing

\* C9: through any sequence of the public operations, no Socket closes its
\* descriptor more than once.
C9_ClosedOnce == \A s \in Socks : sk.closes[s] <= 1

\* C10: when a connection's job has ended, on any path, its socket has been
\* dropped and its descriptor closed, once; the number is open again only as
\* the descriptor of a later socket.
JobOver(c) == conn[c].pc \in {"done", "discarded", "refused"}

C10_ClosedAtJobEnd ==
  \A c \in Conns :
    /\ JobOver(c) =>
         /\ sk.live[c] = "dropped"
         /\ sk.closes[c] = 1
         /\ sk.fd[c] \in sk.open =>
              \E s \in Socks : s # c /\ sk.live[s] = "live" /\ sk.fd[s] = sk.fd[c]
    /\ ~JobOver(c) /\ conn[c].pc # "none" => sk.live[c] = "live" /\ sk.fd[c] \in sk.open

\* Jobs have ended after a read error, after a handler error and after a
\* write, and their sockets are closed.
C10_Witness ==
  \E c, d, e \in Conns :
    /\ conn[c].pc = "done" /\ conn[c].read = "err"
    /\ conn[d].pc = "done" /\ conn[d].handle = "err"
    /\ conn[e].pc = "done" /\ conn[e].write \in {"ok", "err"}

\* ------------------------------------------------ the parser on its own
\* A caller of Request::parse, Method::parse and Version::parse on request
\* texts put together from a method token, a URL, a version text, header
\* lines and a body. main holds the pieces and the result of the call.

\* Header lines of a request text of the model.
MaxHeaders == 2

MethodTokens ==
  {<<"O", "P", "T", "I", "O", "N", "S">>, <<"G", "E", "T">>, <<"H", "E", "A", "D">>, <<"P", "O", "S", "T">>, <<"P", "U", "T">>, <<"D", "E", "L", "E", "T", "E">>, <<"T", "R", "A", "C", "E">>,
   <<"C", "O", "N", "N", "E", "C", "T">>, <<"F", "R", "O", "B">>, <<"g", "e", "t">>}
UrlTokens == {<<"/", "p">>, <<"/", "p", "/">>}
VersionTexts ==
  {<<"H", "T", "T", "P", "/", "1", ".", "1">>, <<"H", "T", "T", "P", "/", "0", ".", "9">>, <<"H", "T", "T", "P", "/", "2", "5", "5", ".", "0">>, <<"H", "T", "T", "P", "/", "2", "5", "6", ".", "0">>, <<"H", "T", "T", "P", "/", "1", ".", "1", ".", "5">>,
   <<"x", "H", "T", "T", "P", "/", "1", ".", "1">>, <<"H", "T", "T", "P", "/", "a", ".", "1">>, <<"H", "T", "T", "P", "/", "1">>, <<"1", ".", "1">>}
HeaderTexts == {<<"A", ":", " ", "1">>, <<"A", ":", " ", "2">>, <<"B", ":", " ", "1">>, <<"A", " ", "1">>, <<"A", ":", " ", "b", ":", " ", "c">>}
BodyTexts == {<<>>, <<"b">>}
\* How the header section ends: with the blank line ("blank"), after the
\* CRLF of its last line ("noblank"), or inside its last line ("nocrlf").
Endings == {"blank", "noblank", "nocrlf"}

HeaderSeqs == UNION {[1..n -> HeaderTexts] : n \in 0..MaxHeaders}

RECURSIVE JoinLines(_)
JoinLines(lines) ==
  IF lines = <<>> THEN <<>> ELSE lines[1] \o CRLF \o JoinLines(Tail(lines))

\* The header section and what follows it.
HeaderSection(lines, ending, body) ==
  IF ending = "blank" THEN JoinLines(lines) \o CRLF \o body
  ELSE IF ending = "noblank" \/ lines = <<>> THEN JoinLines(lines)
  ELSE JoinLines(SubSeq(lines, 1, Len(lines) - 1)) \o lines[Len(lines)]

\* The text from the version on, and the whole request text.
VersionStageText(p) == p.version \o CRLF \o HeaderSection(p.lines, p.ending, p.body)
RequestText(p) == p.method \o SP \o p.url \o SP \o VersionStageText(p)

ParseInputs ==
  [method : MethodTokens, url : UrlTokens, version : VersionTexts,
   lines : HeaderSeqs, ending : Endings, body : BodyTexts]

ParseInit ==
  /\ sk = SockInit
  /\ \E p \in ParseInputs : main = [pc |-> "input", in |-> p, out |-> ParseError]
  /\ queue = <<>>
  /\ lock = [holder |-> 0]
  /\ worker = [w \in Workers |-> [state |-> "idle", job |-> 0, terms |-> 0]]
  /\ conn = [c \in Conns |-> NoConn]

\* Request::parse(raw)
CallRequestParse ==
  /\ main.pc = "input"
  /\ main' = [main EXCEPT !.pc = "request", !.out = RequestParse(RequestText(main.in))]
  /\ UNCHANGED <<sk, queue, lock, worker, conn>>

\* Method::parse(raw)
CallMethodParse ==
  /\ main.pc = "input"
  /\ main' = [main EXCEPT !.pc = "method", !.out = MethodParse(RequestText(main.in))]
  /\ UNCHANGED <<sk, queue, lock, worker, conn>>

\* Version::parse(rest), rest being what Url::parse left.
CallVersionParse ==
  /\ main.pc = "input"
  /\ main' = [main EXCEPT !.pc = "version",
                          !.out = VersionParse(VersionStageText(main.in))]
  /\ UNCHANGED <<sk, queue, lock, worker, conn>>

\* Url::parse(rest), rest being what Method::parse left.
CallUrlParse ==
  /\ main.pc = "input"
  /\ main' = [main EXCEPT !.pc = "url",
                          !.out = UrlParse(main.in.url \o SP \o VersionStageText(main.in))]
  /\ UNCHANGED <<sk, queue, lock, worker, conn>>

\* Headers::parse(rest), rest being what Version::parse left.
CallHeadersParse ==
  /\ main.pc = "input"
  /\ main' = [main EXCEPT !.pc = "headers",
                !.out = HeadersParse(HeaderSection(main.in.lines, main.in.ending,
                                                   main.in.body))]
  /\ UNCHANGED <<sk, queue, lock, worker, conn>>

\* Headers::parse_one(rest) on the header section.
CallHeadersParseOne ==
  /\ main.pc = "input"
  /\ main' = [main EXCEPT !.pc = "one",
                !.out = HeadersParseOne(HeaderSection(main.in.lines, main.in.ending,
                                                      main.in.body))]
  /\ UNCHANGED <<sk, queue, lock, worker, conn>>

\* Request::parse(raw) step by step: the three stages before the headers,
\* which have no loop, then Headers::parse up to its loop.
StartRequestParse ==
  /\ main.pc = "input"
  /\ LET m == MethodParse(RequestText(main.in))
         u == IF m.ok THEN UrlParse(m.rest) ELSE ParseError
         v == IF u.ok THEN VersionParse(u.rest) ELSE ParseError
     IN main' = IF v.ok
                THEN [pc |-> "loop", in |-> main.in, out |-> ParseError,
                      head |-> [method |-> m.val, url |-> u.val, version |-> v.val],
                      rest |-> v.rest, headers |-> EmptyMap, iters |-> 0]
                ELSE [pc |-> "parsed", in |-> main.in, out |-> ParseError, iters |-> 0]
  /\ UNCHANGED <<sk, queue, lock, worker, conn>>

\* One iteration of the loop of Headers::parse; when it returns, Request::parse
\* returns the error or builds the Request.
HeadersLoopStep ==
  /\ main.pc = "loop"
  /\ LET it == HeadersIteration(main.rest, main.headers) IN
     main' = IF ~it.done
             THEN [main EXCEPT !.rest = it.rest, !.headers = it.headers,
                               !.iters = @ + 1]
             ELSE [pc |-> "parsed", in |-> main.in, iters |-> main.iters,
                   out |-> IF ~it.out.ok THEN ParseError
                           ELSE [ok |-> TRUE,
                                 val |-> [method |-> main.head.method,
                                          url |-> main.head.url,
                                          version |-> main.head.version,
                                          headers |-> it.out.val,
                                          body |-> it.out.rest]]]
  /\ UNCHANGED <<sk, queue, lock, worker, conn>>

ParseNext ==
  \/ StartRequestParse
  \/ HeadersLoopStep
  \/ CallRequestParse
  \/ CallMethodParse
  \/ CallUrlParse
  \/ CallVersionParse
  \/ CallHeadersParse
  \/ CallHeadersParseOne

ParseSpec == ParseInit /\ [][ParseNext]_vars

\* ---------------------------------------------- the response on its own
\* A caller that builds a Response with the builder and serializes it.
\* main.resp is the Response inside the ResponseBuilder, main.out the bytes.
Statuses == {"OK", "NotFound"}
HeaderNames == {<<"C", "o", "n", "t", "e", "n", "t", "-", "T", "y", "p", "e">>, <<"T">>}
HeaderValues == {<<"t", "e", "x", "t", "/", "p", "l", "a", "i", "n">>, <<"x">>}
\* Bodies: none, text, and bytes that are not UTF-8 text.
Bodies == {<<>>, <<"p", "o", "n", "g">>, <<"0xFF", "p">>}

\* Response::builder(): Default for Response.
DefaultResponse ==
  [status |-> StatusDefault, version |-> <<1, 1>>, headers |-> EmptyMap, body |-> <<>>]

RespInit ==
  /\ sk = SockInit
  /\ main = [pc |-> "builder", resp |-> DefaultResponse, out |-> <<>>]
  /\ queue = <<>>
  /\ lock = [holder |-> 0]
  /\ worker = [w \in Workers |-> [state |-> "idle", job |-> 0, terms |-> 0]]
  /\ conn = [c \in Conns |-> NoConn]

\* ResponseBuilder::status
BuilderStatus(st) ==
  /\ main.pc = "builder"
  /\ main' = [main EXCEPT !.resp.status = st]
  /\ UNCHANGED <<sk, queue, lock, worker, conn>>

\* ResponseBuilder::header
BuilderHeader(name, value) ==
  /\ main.pc = "builder"
  /\ main' = [main EXCEPT !.resp.headers = MapInsert(@, name, value)]
  /\ UNCHANGED <<sk, queue, lock, worker, conn>>

\* ResponseBuilder::body
BuilderBody(body) ==
  /\ main.pc = "builder"
  /\ main' = [main EXCEPT !.resp.body = body]
  /\ UNCHANGED <<sk, queue, lock, worker, conn>>

\* Response::from(builder), then Response::as_bytes; the map yields its keys
\* in some order.
CallAsBytes ==
  /\ main.pc = "builder"
  /\ \E order \in KeyOrders(main.resp.headers) :
       main' = [main EXCEPT !.pc = "bytes", !.out = AsBytes(main.resp, order)]
  /\ UNCHANGED <<sk, queue, lock, worker, conn>>

RespNext ==
  \/ \E st \in Statuses : BuilderStatus(st)
  \/ \E name \in HeaderNames, value \in HeaderValues : BuilderHeader(name, value)
  \/ \E body \in Bodies : BuilderBody(body)
  \/ CallAsBytes

RespSpec == RespInit /\ [][RespNext]_vars

\* ============================================== claims on the response
\* The wire format the claims state: the status line, one line per header in
\* the order the map yields them, and the blank line, each ended by eol.
RECURSIVE WireHeaderLines(_, _, _)
WireHeaderLines(headers, order, eol) ==
  IF order = <<>> THEN <<>>
  ELSE order[1] \o <<":", " ">> \o headers[order[1]] \o eol
       \o WireHeaderLines(headers, Tail(order), eol)

WireHead(r, order, eol) ==
  VersionToString(r.version) \o SP \o StatusCode(r.status) \o SP
  \o StatusText(r.status) \o eol \o WireHeaderLines(r.headers, order, eol) \o eol

\* C11: as_bytes() of a built Response is the status line, one line per
\* header, one blank line and then the body bytes exactly once, unmodified,
\* whether or not the body is text (whatever the line terminator is).
C11_BodyExactlyOnce ==
  main.pc = "bytes" =>
    \E order \in KeyOrders(main.resp.headers), eol \in {<<"\n">>, CRLF} :
      main.out = WireHead(main.resp, order, eol) \o main.resp.body

\* C12: every line of the serialized head ends with CRLF, and the response
\* 200, Content-Type: text/plain, body pong is serialized as exactly
\* HTTP/1.1 200 OK CRLF Content-Type: text/plain CRLF CRLF pong.
PingResponse ==
  [status |-> "OK", version |-> <<1, 1>>,
   headers |-> [n \in {<<"C", "o", "n", "t", "e", "n", "t", "-", "T", "y", "p", "e">>} |-> <<"t", "e", "x", "t", "/", "p", "l", "a", "i", "n">>],
   body |-> <<"p", "o", "n", "g">>]
PingBytes == <<"H", "T", "T", "P", "/", "1", ".", "1", " ", "2", "0", "0", " ", "O", "K", "\r", "\n", "C", "o", "n", "t", "e", "n", "t", "-", "T", "y", "p", "e", ":", " ", "t", "e", "x", "t", "/", "p", "l", "a", "i", "n", "\r", "\n", "\r", "\n", "p", "o", "n", "g">>

C12_HeadLinesEndWithCRLF ==
  main.pc = "bytes" =>
    /\ \E order \in KeyOrders(main.resp.headers) :
         StartsWith(main.out, WireHead(main.resp, order, CRLF))
    /\ main.resp = PingResponse => main.out = PingBytes

\* ------------------------------------------------ the router on its own
\* A caller that registers handlers with Router::route and then hands the
\* router a request. main.map is router_map, main.routes the route calls made,
\* main.calls the handlers invoked by handle, main.out what handle returned.

\* Route calls made before the request.
MaxRoutes == 3

RouteMethods == {"GET", "POST"}
RoutePaths == {<<"/", "x">>, <<"/", "y">>}
RequestMethods == {"GET", "POST", "PUT"}
RequestUrls == {<<"/", "x">>, <<"/", "y">>, <<"/", "x", "/">>, <<"/", "x", "?", "q">>, <<"/", "z">>}
Handlers == {"h1", "h2", "h3"}

\* What each handler of the model returns: two different responses, an error.
HandlerResult(h, req) ==
  IF h = "h1" THEN [ok |-> TRUE, val |-> Pong]
  ELSE IF h = "h2" THEN [ok |-> TRUE, val |-> [DefaultResponse EXCEPT !.body = req.url]]
  ELSE [ok |-> FALSE]

\* A route that starts the path's method map afresh.
RouterRouteFresh(map, method, path, h) ==
  MapInsert(map, path, MapInsert(EmptyMap, method, h))

\* Router::route: entry(url).or_insert_with(HashMap::new).insert(method, handler)
RouterRoute(map, method, path, h) ==
  LET inner == IF path \in DOMAIN map THEN map[path] ELSE EmptyMap
  IN MapInsert(map, path, MapInsert(inner, method, h))

\* A lookup that drops a trailing "/" of the URL before it looks.
RouterGetNormalized(map, url, method) ==
  LET u == IF Len(url) > 1 /\ url[Len(url)] = "/" THEN SubSeq(url, 1, Len(url) - 1)
           ELSE url
  IN IF u \in DOMAIN map /\ method \in DOMAIN map[u]
     THEN [some |-> TRUE, val |-> map[u][method]]
     ELSE [some |-> FALSE]

\* router_map.get(req.url()).and_then(|method_map| method_map.get(req.method()))
RouterGet(map, url, method) ==
  IF url \in DOMAIN map /\ method \in DOMAIN map[url]
  THEN [some |-> TRUE, val |-> map[url][method]]
  ELSE [some |-> FALSE]

\* A dispatch that takes a handler of the URL whatever the method.
RouterDispatchAnyMethod(map, req) ==
  IF req.url \in DOMAIN map
  THEN [some |-> TRUE, val |-> map[req.url][CHOOSE m \in DOMAIN map[req.url] : TRUE]]
  ELSE [some |-> FALSE]

\* The handler Router::handle picks for a request.
RouterDispatch(map, req) == RouterGet(map, req.url, req.method)

\* Response::builder().status(Status::NotFound).into()
NotFoundResponse == [DefaultResponse EXCEPT !.status = "NotFound"]

RouterInit ==
  /\ sk = SockInit
  /\ main = [pc |-> "setup", map |-> EmptyMap, routes |-> <<>>,
             req |-> [method |-> "GET", url |-> <<>>], calls |-> <<>>,
             out |-> [ok |-> FALSE]]
  /\ queue = <<>>
  /\ lock = [holder |-> 0]
  /\ worker = [w \in Workers |-> [state |-> "idle", job |-> 0, terms |-> 0]]
  /\ conn = [c \in Conns |-> NoConn]

\* router.route(method, path, handler)
CallRoute(method, path, h) ==
  /\ main.pc = "setup"
  /\ Len(main.routes) < MaxRoutes
  /\ main' = [main EXCEPT
                !.map = RouterRoute(@, method, path, h),
                !.routes = Append(@, [method |-> method, path |-> path, handler |-> h])]
  /\ UNCHANGED <<sk, queue, lock, worker, conn>>

\* Handler for Router: handle(req)
CallHandle(req) ==
  /\ main.pc = "setup"
  /\ LET handler == RouterDispatch(main.map, req) IN
     main' = [main EXCEPT
                !.pc = "handled", !.req = req,
                !.calls = IF handler.some THEN <<handler.val>> ELSE <<>>,
                !.out = IF handler.some THEN HandlerResult(handler.val, req)
                        ELSE [ok |-> TRUE, val |-> NotFoundResponse]]
  /\ UNCHANGED <<sk, queue, lock, worker, conn>>

RouterNext ==
  \/ \E method \in RouteMethods, path \in RoutePaths, h \in Handlers :
       CallRoute(method, path, h)
  \/ \E method \in RequestMethods, url \in RequestUrls :
       CallHandle([method |-> method, url |-> url])

RouterSpec == RouterInit /\ [][RouterNext]_vars

\* ================================================ claims on the router
\* The route calls made for exactly this method and path, in order.
RoutesFor(method, url) ==
  SelectSeq(main.routes, LAMBDA r : r.method = method /\ r.path = url)
Registered(method, url) == RoutesFor(method, url) # <<>>
LastRegistered(method, url) ==
  RoutesFor(method, url)[Len(RoutesFor(method, url))].handler

\* C13: on a hit the handler registered for the request's method and URL is
\* invoked exactly once, no other handler is invoked, and handle returns
\* that handler's result, response or error, unchanged.
C13_HitInvokesThatHandler ==
  main.pc = "handled" /\ Registered(main.req.method, main.req.url) =>
    LET h == LastRegistered(main.req.method, main.req.url) IN
    /\ main.calls = <<h>>
    /\ main.out = HandlerResult(h, main.req)

\* A hit on a URL that has another handler for another method, for a handler
\* that returns a response and for one that returns an error.
C13_Witness ==
  /\ main.pc = "handled"
  /\ Registered(main.req.method, main.req.url)
  /\ \E m \in RouteMethods :
       /\ m # main.req.method
       /\ Registered(m, main.req.url)
       /\ LastRegistered(m, main.req.url) # LastRegistered(main.req.method, main.req.url)
  /\ ~main.out.ok

\* C14: on a miss (URL not registered, registered only for other methods, or
\* different from a registered path in any character) no handler is invoked
\* and handle returns Ok with a 404 Not Found response with an empty body.
C14_MissGives404 ==
  main.pc = "handled" /\ ~Registered(main.req.method, main.req.url) =>
    /\ main.calls = <<>>
    /\ main.out.ok
    /\ main.out.val.status = "NotFound"
    /\ StatusCode(main.out.val.status) = <<"4", "0", "4">>
    /\ main.out.val.body = <<>>

\* A request for a registered path with a trailing slash, with its method.
C14_Witness ==
  /\ main.pc = "handled"
  /\ main.req.url = <<"/", "x", "/">>
  /\ Registered(main.req.method, <<"/", "x">>)
  /\ main.calls = <<>>

\* ================================================ claims on the parser
\* The eight enumerated methods, by token.
MethodTable ==
  {<<<<"O", "P", "T", "I", "O", "N", "S">>, "OPTIONS">>, <<<<"G", "E", "T">>, "GET">>, <<<<"H", "E", "A", "D">>, "HEAD">>,
   <<<<"P", "O", "S", "T">>, "POST">>, <<<<"P", "U", "T">>, "PUT">>, <<<<"D", "E", "L", "E", "T", "E">>, "DELETE">>,
   <<<<"T", "R", "A", "C", "E">>, "TRACE">>, <<<<"C", "O", "N", "N", "E", "C", "T">>, "CONNECT">>}
IsMethodToken(tok) == \E e \in MethodTable : e[1] = tok
MethodOf(tok) == (CHOOSE e \in MethodTable : e[1] = tok)[2]

\* The version texts of the model that are exactly HTTP/<major>.<minor> with
\* both numbers in 0..255, and the pair each one names.
VersionTable ==
  {<<<<"H", "T", "T", "P", "/", "1", ".", "1">>, <<1, 1>>>>, <<<<"H", "T", "T", "P", "/", "0", ".", "9">>, <<0, 9>>>>, <<<<"H", "T", "T", "P", "/", "2", "5", "5", ".", "0">>, <<255, 0>>>>}
IsVersionText(txt) == \E e \in VersionTable : e[1] = txt
VersionOf(txt) == (CHOOSE e \in VersionTable : e[1] = txt)[2]

\* The header lines of the model that are Name: Value, with name and value.
HeaderTable ==
  {<<<<"A", ":", " ", "1">>, <<"A">>, <<"1">>>>, <<<<"A", ":", " ", "2">>, <<"A">>, <<"2">>>>, <<<<"B", ":", " ", "1">>, <<"B">>, <<"1">>>>,
   <<<<"A", ":", " ", "b", ":", " ", "c">>, <<"A">>, <<"b", ":", " ", "c">>>>}
IsHeaderLine(line) == \E e \in HeaderTable : e[1] = line
NameOf(line) == (CHOOSE e \in HeaderTable : e[1] = line)[2]
ValueOf(line) == (CHOOSE e \in HeaderTable : e[1] = line)[3]
LacksSeparator(line) == FindFrom(line, <<":", " ">>, 1) = 0

\* The header mapping a sequence of Name: Value lines stands for: for each
\* name the value of the last line with that name.
LastLineOf(lines, name) ==
  CHOOSE i \in 1..Len(lines) :
    /\ NameOf(lines[i]) = name
    /\ \A j \in (i + 1)..Len(lines) : NameOf(lines[j]) # name
HeadersOf(lines) ==
  [name \in {NameOf(lines[i]) : i \in 1..Len(lines)} |->
     ValueOf(lines[LastLineOf(lines, name)])]

WellFormed(p) ==
  /\ IsMethodToken(p.method)
  /\ IsVersionText(p.version)
  /\ \A i \in 1..Len(p.lines) : IsHeaderLine(p.lines[i])
  /\ p.ending = "blank"

\* C15: Request::parse of a well-formed request text succeeds, and method,
\* URL, version and header set of the parsed request are those of the text.
C15_WellFormedParses ==
  main.pc = "request" /\ WellFormed(main.in) =>
    /\ main.out.ok
    /\ main.out.val.method = MethodOf(main.in.method)
    /\ main.out.val.url = main.in.url
    /\ main.out.val.version = VersionOf(main.in.version)
    /\ main.out.val.headers = HeadersOf(main.in.lines)

\* The same for the well-formed texts whose method is not CONNECT.
C15_WellFormedParsesButConnect ==
  main.pc = "request" /\ WellFormed(main.in) /\ main.in.method # <<"C", "O", "N", "N", "E", "C", "T">> =>
    /\ main.out.ok
    /\ main.out.val.method = MethodOf(main.in.method)
    /\ main.out.val.url = main.in.url
    /\ main.out.val.version = VersionOf(main.in.version)
    /\ main.out.val.headers = HeadersOf(main.in.lines)
    /\ main.out.val.body = main.in.body

\* C16: a request line whose method token is one of the eight enumerated
\* methods parses to that Method, and any other token is a parse error.
C16_EightMethods ==
  main.pc = "method" =>
    IF IsMethodToken(main.in.method)
    THEN main.out.ok /\ main.out.val = MethodOf(main.in.method)
    ELSE ~main.out.ok

\* C17: a request whose header section does not end with an empty line is a
\* parse error.
C17_NoBlankLineFails ==
  main.pc = "request" /\ main.in.ending # "blank" => ~main.out.ok

\* Everything but the missing blank line is well-formed: with headers whose
\* last line has its CRLF, and with a last line that lacks it.
C17_Witness ==
  /\ main.pc = "request"
  /\ WellFormed([main.in EXCEPT !.ending = "blank"])
  /\ main.in.method = <<"G", "E", "T">>
  /\ Len(main.in.lines) = MaxHeaders
  /\ main.in.ending = "noblank"
  /\ ~main.out.ok

\* C18: a request in which a header line before the blank line lacks ": "
\* is a parse error, wherever the line sits.
C18_BadHeaderLineFails ==
  main.pc = "request" /\ (\E i \in 1..Len(main.in.lines) : LacksSeparator(main.in.lines[i]))
    => ~main.out.ok

\* The line without separator is the last of several, after lines that are
\* valid, in a request that is otherwise well-formed.
C18_Witness ==
  /\ main.pc = "request"
  /\ main.in.method = <<"G", "E", "T">> /\ IsVersionText(main.in.version)
  /\ main.in.ending = "blank"
  /\ Len(main.in.lines) = MaxHeaders
  /\ LacksSeparator(main.in.lines[MaxHeaders])
  /\ \A i \in 1..(MaxHeaders - 1) : IsHeaderLine(main.in.lines[i])
  /\ ~main.out.ok

\* C19: the version stage succeeds only on text that is, up to the first
\* CRLF, exactly HTTP/<major>.<minor> with both numbers in 0..255, and then
\* gives those numbers.
C19_VersionExact ==
  main.pc = "version" =>
    IF IsVersionText(main.in.version)
    THEN main.out.ok /\ main.out.val = VersionOf(main.in.version)
    ELSE ~main.out.ok

\* C20: when several header lines have the same name, the parsed mapping has
\* one entry for the name, with the value of the last such line.
C20_LastDuplicateWins ==
  main.pc = "request" /\ main.out.ok =>
    /\ DOMAIN main.out.val.headers = {NameOf(main.in.lines[i]) : i \in 1..Len(main.in.lines)}
    /\ \A i, j \in 1..Len(main.in.lines) :
         /\ i < j
         /\ NameOf(main.in.lines[i]) = NameOf(main.in.lines[j])
         /\ \A k \in (j + 1)..Len(main.in.lines) :
              NameOf(main.in.lines[k]) # NameOf(main.in.lines[j])
         => main.out.val.headers[NameOf(main.in.lines[j])] = ValueOf(main.in.lines[j])

\* A request with the header A twice, with different values, has parsed.
C20_Witness ==
  /\ main.pc = "request" /\ main.out.ok
  /\ \E i, j \in 1..Len(main.in.lines) :
       /\ i < j
       /\ NameOf(main.in.lines[i]) = NameOf(main.in.lines[j])
       /\ ValueOf(main.in.lines[i]) # ValueOf(main.in.lines[j])

\* C21: a header line is split at its first ": " only: the name is the text
\* before it, the value everything after it up to the CRLF, later ": "
\* included.
FirstLineComplete(p) ==
  /\ p.lines # <<>>
  /\ ~(Len(p.lines) = 1 /\ p.ending = "nocrlf")
  /\ ~LacksSeparator(p.lines[1])

C21_SplitAtFirstSeparator ==
  main.pc = "one" /\ FirstLineComplete(main.in) =>
    LET line == main.in.lines[1] IN
    /\ main.out.ok
    /\ \E k \in 1..(Len(line) - 1) :
         /\ SubSeq(line, k, k + 1) = <<":", " ">>
         /\ \A j \in 1..(k - 1) : SubSeq(line, j, j + 1) # <<":", " ">>
         /\ main.out.name = SubSeq(line, 1, k - 1)
         /\ main.out.value = SubSeq(line, k + 2, Len(line))

\* parse_one has split a line that has ": " twice.
C21_Witness ==
  /\ main.pc = "one" /\ main.out.ok
  /\ main.in.lines[1] = <<"A", ":", " ", "b", ":", " ", "c">>
  /\ main.out.name = <<"A">>
  /\ main.out.value = <<"b", ":", " ", "c">>

\* C30: the parser runs four stages in order (method, URL, version, headers);
\* each consumes a prefix and hands the exact remainder to the next: the
\* method stage the text after the first space, the URL stage the text after
\* the next space, the version stage the text after the first CRLF, the
\* header stage the text after the empty line; the first failing stage aborts
\* the parse with the single ParseError and no Request is produced.
AfterMethod(p) == p.url \o SP \o VersionStageText(p)
AfterVersion(p) == HeaderSection(p.lines, p.ending, p.body)

C30_StagesHandRemainder ==
  LET p == main.in IN
  /\ main.pc = "method" /\ main.out.ok => main.out.rest = AfterMethod(p)
  /\ main.pc = "url" =>
       main.out.ok /\ main.out.val = p.url /\ main.out.rest = VersionStageText(p)
  /\ main.pc = "version" /\ main.out.ok => main.out.rest = AfterVersion(p)
  /\ main.pc = "headers" /\ main.out.ok =>
       p.ending = "blank" /\ main.out.rest = p.body
  /\ main.pc = "request" =>
       /\ main.out.ok <=> /\ MethodParse(RequestText(p)).ok
                          /\ VersionParse(VersionStageText(p)).ok
                          /\ HeadersParse(AfterVersion(p)).ok
       /\ ~main.out.ok => main.out = ParseError
       /\ main.out.ok =>
            /\ main.out.val.method = MethodParse(RequestText(p)).val
            /\ main.out.val.url = p.url
            /\ main.out.val.version = VersionParse(VersionStageText(p)).val
            /\ main.out.val.headers = HeadersParse(AfterVersion(p)).val
            /\ main.out.val.body = p.body

\* The header stage has consumed two header lines and the empty line and
\* handed on a body that is not empty.
C30_Witness ==
  /\ main.pc = "headers" /\ main.out.ok
  /\ Len(main.in.lines) = 2
  /\ main.in.body # <<>>
  /\ main.out.rest = main.in.body

\* ------------------------------------------------- listener and pool set-up
\* TcpListener::bind, ThreadPool::new and the pulls on incoming(), called in
\* the order of Server::bind and Server::serve, with the candidate list, the
\* pool size and the outcome of every system call chosen freely.
MaxCands == 3
Backlog == 128

CandLists == UNION {[1..n -> {"v4", "v6"}] : n \in 0..MaxCands}
Peers == {<<"peer", 1>>, <<"peer", 2>>}
NoAddr == <<"none", 0>>
BindOutcomes ==
  {"ok", "resolve_err", "socket_err", "setsockopt_err", "bind_err", "listen_err"}
AcceptOutcomes == {"ok", "accept_err", "peer_err"}

\* A bind that takes the first candidate whatever its family.
FirstCandidate(cands) == IF cands = <<>> THEN 0 ELSE 1

\* TcpListener::bind, the loop: the first candidate that is_ipv4(), 0 for none.
FirstIPv4(cands) ==
  IF \E i \in DOMAIN cands : cands[i] = "v4"
  THEN CHOOSE i \in DOMAIN cands :
         cands[i] = "v4" /\ \A j \in 1..(i - 1) : cands[j] # "v4"
  ELSE 0

\* The system calls of bind up to the one that fails: Socket::new (socket,
\* setsockopt), Socket::bind, Socket::listen.
BindCalls(res, i) ==
  LET all == << <<"socket">>, <<"setsockopt", "ReuseAddr">>, <<"bind", i>>,
                <<"listen", Backlog>> >>
  IN SubSeq(all, 1, CASE res = "socket_err" -> 1
                      [] res = "setsockopt_err" -> 2
                      [] res = "bind_err" -> 3
                      [] OTHER -> 4)

\* getpeername and getsockname on a socket.
GetPeerName(ends, s) == ends[s].peer
GetSockName(ends, s) == ends[s].local

\* An accept that reports the listener's own address.
AcceptedAddrOfListener(ends, listener, new) == GetSockName(ends, listener)

\* TcpListener::accept: new_socket.get_peer_name()
AcceptedAddr(ends, listener, new) == GetPeerName(ends, new)

\* TcpListener::accept: what it returns.
TcpListenerAccept(res, ends, listener, new) ==
  IF res = "accept_err" THEN [ok |-> FALSE, err |-> "accept"]
  ELSE IF res = "peer_err" THEN [ok |-> FALSE, err |-> "getpeername"]
  ELSE [ok |-> TRUE, stream |-> new, addr |-> AcceptedAddr(ends, listener, new)]

\* An iterator that ends at the first error.
IncomingItemFused(r) ==
  IF r.ok THEN [some |-> TRUE, ok |-> TRUE, stream |-> r.stream]
  ELSE [some |-> FALSE]

\* Incoming::next: Some(self.listener.accept().map(|p| p.0))
IncomingItem(r) ==
  IF r.ok THEN [some |-> TRUE, ok |-> TRUE, stream |-> r.stream]
  ELSE [some |-> TRUE, ok |-> FALSE, err |-> r.err]

\* A loop over 0..=size.
WorkerIdsInclusive(size) == 0..size

\* ThreadPool::new: for id in 0..size, numbered from 1 here.
WorkerIds(size) == 1..size

ListenInit ==
  /\ sk = SockInit
  /\ \E cs \in CandLists, n \in 0..NumWorkers :
       main = [pc |-> "start", cands |-> cs, size |-> n, local |-> 0, err |-> "none",
               calls |-> <<>>, ends |-> [s \in Socks |-> [local |-> NoAddr, peer |-> NoAddr]],
               pulls |-> 0, accepts |-> 0, last |-> [ok |-> FALSE, err |-> "none"],
               items |-> <<>>]
  /\ queue = <<>>
  /\ lock = [holder |-> 0]
  /\ worker = <<>>
  /\ conn = [c \in Conns |-> NoConn]

\* TcpListener::bind(ip)
TcpListenerBind ==
  /\ main.pc = "start"
  /\ \E res \in BindOutcomes :
       LET i == FirstIPv4(main.cands) IN
       IF res = "resolve_err"
       THEN /\ main' = [main EXCEPT !.pc = "bind_failed", !.err = "resolve"]
            /\ sk' = sk
       ELSE IF i = 0
       THEN /\ main' = [main EXCEPT !.pc = "bind_failed", !.err = "Other"]
            /\ sk' = sk
       ELSE IF res = "ok"
       THEN /\ main' = [main EXCEPT !.pc = "bound", !.local = i,
                                    !.calls = BindCalls(res, i),
                                    !.ends[0].local = <<"cand", i>>]
            /\ sk' = SocketCreate(sk, 0)
       ELSE /\ main' = [main EXCEPT !.pc = "bind_failed", !.err = res,
                                    !.calls = BindCalls(res, i)]
            /\ sk' = CASE res = "socket_err" -> sk
                       [] res = "setsockopt_err" ->
                            \* the descriptor is not wrapped yet: nothing closes it
                            [sk EXCEPT !.open = @ \cup {LowestFree(sk.open)}]
                       [] OTHER -> SocketDrop(SocketCreate(sk, 0), 0)
  /\ UNCHANGED <<queue, lock, worker, conn>>

\* ThreadPool::new(size)
ThreadPoolNew ==
  /\ main.pc = "bound"
  /\ IF main.size > 0
     THEN /\ worker' = [w \in WorkerIds(main.size) |->
                          [state |-> "idle", job |-> 0, terms |-> 0]]
          /\ main' = [main EXCEPT !.pc = "listening"]
          /\ sk' = sk
     ELSE \* assert!(size > 0) fails; the unwinding drops the listener
          /\ worker' = worker
          /\ main' = [main EXCEPT !.pc = "panicked"]
          /\ sk' = SocketDrop(sk, 0)
  /\ UNCHANGED <<queue, lock, conn>>

\* One pull on incoming(): Incoming::next.
IncomingNext ==
  /\ main.pc = "listening"
  /\ main.pulls < MaxConns
  /\ Fds \ sk.open # {}
  /\ \E res \in AcceptOutcomes, p \in Peers :
       LET s == main.pulls + 1
           ends2 == [main.ends EXCEPT ![s] = [local |-> main.ends[0].local, peer |-> p]]
           r == TcpListenerAccept(res, ends2, 0, s)
           item == IncomingItem(r)
       IN /\ sk' = CASE res = "accept_err" -> sk
                     [] res = "peer_err" -> SocketDrop(SocketCreate(sk, s), s)
                     [] OTHER -> SocketCreate(sk, s)
          /\ main' = [main EXCEPT !.pulls = s, !.accepts = @ + 1,
                                  !.ends = IF res = "ok" THEN ends2 ELSE @,
                                  !.last = r,
                                  !.items = Append(@, item),
                                  !.pc = IF item.some THEN "listening" ELSE "done"]
  /\ UNCHANGED <<queue, lock, worker, conn>>

ListenNext ==
  \/ TcpListenerBind
  \/ ThreadPoolNew
  \/ IncomingNext

ListenSpec == ListenInit /\ [][ListenNext]_vars

\* C22: the sequence returned by incoming() never signals completion: every
\* pull performs exactly one accept on the listener and yields an item, and
\* an accept error is yielded as an error item after which a further pull
\* performs a further accept.
C22_IncomingNeverEnds ==
  /\ [](main.pc # "done")
  /\ [](main.pc = "listening" /\ main.pulls < MaxConns /\ Fds \ sk.open # {}
          => ENABLED IncomingNext)
  /\ [][main.pulls' # main.pulls =>
          /\ main.pulls' = main.pulls + 1
          /\ main.accepts' = main.accepts + 1
          /\ Len(main.items') = Len(main.items) + 1
          /\ LET item == main.items'[Len(main.items')] IN
             /\ item.some
             /\ item.ok <=> main.last'.ok
             /\ item.ok => item.stream = main.last'.stream
             /\ ~item.ok => item.err = main.last'.err]_vars

\* An error item is followed by the item of a further accept.
C22_Witness ==
  /\ main.pc = "listening"
  /\ Len(main.items) = 2 /\ main.accepts = 2
  /\ ~main.items[1].ok
  /\ main.items[2].ok

\* C23: TcpListener::bind uses the first IPv4 address of the resolved
\* candidate list and skips candidates of other families; on it, it performs
\* in this order socket creation with address-reuse enabled, bind, then
\* listen with backlog 128; when no candidate is IPv4 it creates no socket
\* and returns a generic error.
IPv4Candidates == {i \in DOMAIN main.cands : main.cands[i] = "v4"}

C23_BindFirstIPv4 ==
  /\ main.local # 0 =>
       /\ main.local \in IPv4Candidates
       /\ \A j \in IPv4Candidates : main.local <= j
       /\ main.calls = << <<"socket">>, <<"setsockopt", "ReuseAddr">>,
                          <<"bind", main.local>>, <<"listen", 128>> >>
  /\ main.pc # "start" /\ main.err # "resolve" /\ IPv4Candidates = {} =>
       /\ main.pc = "bind_failed"
       /\ main.err = "Other"
       /\ main.calls = <<>>
       /\ sk.open = {} /\ sk.live[0] = "none"

\* The listener is bound to an IPv4 candidate that follows an IPv6 one.
C23_Witness ==
  /\ main.pc = "bound"
  /\ main.cands = <<"v6", "v4", "v4">>
  /\ main.local = 2
  /\ sk.live[0] = "live"

\* C24: TcpListener::accept returns a stream that wraps the newly accepted
\* socket together with that socket's peer address (not the listener's own
\* address); if accepting fails it returns the error and no stream.
C24_AcceptGivesPeerAddress ==
  main.accepts > 0 =>
    IF main.last.ok
    THEN /\ main.last.stream = main.accepts
         /\ sk.live[main.last.stream] = "live"
         /\ main.last.addr \in Peers
         /\ main.last.addr = main.ends[main.last.stream].peer
         /\ main.last.addr # main.ends[0].local
    ELSE /\ DOMAIN main.last = {"ok", "err"}
         /\ sk.live[main.accepts] # "live"

\* An accept has returned a stream with the second peer's address.
C24_Witness ==
  /\ main.accepts = 2 /\ main.last.ok
  /\ main.last.addr = <<"peer", 2>>
  /\ sk.live[2] = "live"

\* C25: ThreadPool::new(0) panics without creating any worker;
\* ThreadPool::new(N) with N > 0 creates exactly N worker threads, all
\* initially idle and waiting on the shared queue.
C25_PoolNew ==
  /\ main.pc = "panicked" <=> main.pc \notin {"start", "bind_failed", "bound"} /\ main.size = 0
  /\ main.pc = "panicked" => DOMAIN worker = {}
  /\ main.pc = "listening" =>
       /\ Cardinality(DOMAIN worker) = main.size
       /\ \A w \in DOMAIN worker : worker[w].state = "idle" /\ worker[w].job = 0
       /\ queue = <<>> /\ lock.holder = 0

\* A pool of two idle workers has been made.
C25_Witness ==
  /\ main.pc = "listening" /\ main.size = 2
  /\ Cardinality(DOMAIN worker) = 2
  /\ \A w \in DOMAIN worker : worker[w].state = "idle"

\* C26: there is no timeout or cancellation: with a pool of N workers, if N
\* accepted connections never send data, all N workers stay blocked in read
\* for as long as those clients stay silent and no later job starts, while
\* the accept loop is never blocked by submission and keeps accepting and
\* enqueuing connections.
AllBlocked == \A w \in Workers : Running(w, "read")

C26_SilentClientsBlockPool ==
  /\ [][\A w \in Workers :
          Running(w, "read") /\ conn'[worker[w].job].read = "none" =>
            /\ worker'[w] = worker[w]
            /\ conn'[worker[w].job].pc = "read"]_vars
  /\ [][AllBlocked => \A c \in Conns : conn'[c].starts = conn[c].starts]_vars
  /\ [](AllBlocked /\ main.pc = "accept" /\ main.accepted < MaxConns
          /\ Fds \ sk.open # {} => ENABLED Accept)
  /\ [][AllBlocked /\ main.pc = "accept" /\ main.accepted' # main.accepted
          /\ main'.pc = "accept" =>
            /\ queue' = Append(queue, NewJob(main.accepted'))
            /\ conn'[main.accepted'].pc = "queued"]_vars

\* Every worker waits in read for a silent client and a connection accepted
\* after that waits in the queue.
C26_Witness ==
  /\ AllBlocked
  /\ \A w \in Workers : conn[worker[w].job].read = "none"
  /\ main.pc = "accept"
  /\ main.accepted = NumWorkers + 1
  /\ queue = <<NewJob(NumWorkers + 1)>>

\* C27: jobs are dequeued in submission order: if job A is submitted before
\* job B, A starts executing no later than B is dequeued; with two or more
\* workers the completion order is not fixed (the witness is a state where B
\* has completed and A has not).
C27_DequeuedInSubmissionOrder ==
  \A a \in Conns, b \in Conns :
    a < b /\ a \in Submitted /\ conn[b].starts > 0 => conn[a].starts > 0

\* A later job has completed while an earlier one is still executing.
C27_Witness ==
  \E a \in Conns, b \in Conns :
    /\ NumWorkers >= 2
    /\ a < b
    /\ conn[b].pc = "done" /\ conn[b].starts = 1
    /\ conn[a].pc \in {"read", "handle", "write"}

\* C28: from construction until teardown begins, the pool has exactly N live
\* worker threads in every reachable state: no sequence of jobs, including
\* jobs whose connection fails, reduces the number of workers able to
\* dequeue.
LiveWorkers == {w \in Workers : worker[w].state \notin Ended}

C28_AllWorkersLive ==
  main.pc = "accept" => Cardinality(LiveWorkers) = NumWorkers

\* C29: when the single read returns n bytes, fewer than the buffer holds,
\* the body of the Request passed to the handler is exactly the received text
\* that follows the blank line, so its length is n minus the length of the
\* request head; it contains nothing taken from the unused remainder of the
\* read buffer.
RequestOf(c) == Parsed[conn[c].rx].val
HeadLen(txt) == FindFrom(txt, CRLF \o CRLF, 1) + 3

C29_BodyIsReceivedText ==
  \A c \in Conns :
    conn[c].parse = "ok" /\ Len(conn[c].rx) < BufLen =>
      /\ RequestOf(c).body = SubSeq(conn[c].rx, HeadLen(conn[c].rx) + 1, Len(conn[c].rx))
      /\ Len(RequestOf(c).body) = Len(conn[c].rx) - HeadLen(conn[c].rx)
      /\ \A i \in 1..Len(RequestOf(c).body) : RequestOf(c).body[i] # NUL

\* --------------------------------------------------- the status on its own
\* A caller that takes a Status, or the default one, and asks for its code
\* or its text form. main.in is the Status, main.out what the call returned.
StatusInit ==
  /\ sk = SockInit
  /\ \E st \in StatusVariants : main = [pc |-> "input", in |-> st, out |-> <<>>]
  /\ queue = <<>>
  /\ lock = [holder |-> 0]
  /\ worker = [w \in Workers |-> [state |-> "idle", job |-> 0, terms |-> 0]]
  /\ conn = [c \in Conns |-> NoConn]

\* status.code()
CallStatusCode ==
  /\ main.pc = "input"
  /\ main' = [main EXCEPT !.pc = "code", !.out = StatusCodeU16(main.in)]
  /\ UNCHANGED <<sk, queue, lock, worker, conn>>

\* status.to_string()
CallStatusToString ==
  /\ main.pc = "input"
  /\ main' = [main EXCEPT !.pc = "display", !.out = StatusToString(main.in)]
  /\ UNCHANGED <<sk, queue, lock, worker, conn>>

\* Status::default().to_string()
CallStatusDefault ==
  /\ main.pc = "input"
  /\ main' = [pc |-> "default", in |-> StatusDefault, out |-> StatusToString(StatusDefault)]
  /\ UNCHANGED <<sk, queue, lock, worker, conn>>

StatusNext ==
  \/ CallStatusCode
  \/ CallStatusToString
  \/ CallStatusDefault

StatusSpec == StatusInit /\ [][StatusNext]_vars

\* C31: for every Status value, code() returns the numeric code declared for
\* that variant (OK gives 200, NotFound gives 404), the status line renders
\* as <code> <reason>, all codes are pairwise distinct and lie in 100..599,
\* and the default status is 200 OK.
ThreeDigits(n) ==
  <<Digits[(n \div 100) + 1], Digits[((n \div 10) % 10) + 1], Digits[(n % 10) + 1]>>

C32_NoSubmitAfterError ==
  [][main.pc # "accept" =>
       /\ main.accepted' = main.accepted
       /\ \A c \in Conns : conn[c].starts = 0 /\ InQueue(c) = 0 => InQueue(c)' = 0]_vars

C32_ReturnedAfterJobs ==
  main.pc = "returned" =>
    /\ \A c \in Submitted : conn[c].pc = "done" /\ conn[c].starts = 1
    /\ \A w \in Workers : worker[w].state = "exited"

C32_ServeReturnsAcceptError ==
  /\ C32_NoSubmitAfterError
  /\ []C32_ReturnedAfterJobs
  /\ (main.pc = "drop_send") ~> (main.pc = "returned")

\* The same, for the behaviours in which no job ends by a panic.
C32_ServeReturnsUnlessPanic ==
  /\ C32_NoSubmitAfterError
  /\ []C32_ReturnedAfterJobs
  /\ (main.pc = "drop_send") ~> (main.pc = "returned" \/ AnyPanic)

\* C33: the queue lock is held only while a worker waits for and takes one
\* message, never while it executes a job: with two or more workers, a job
\* that blocks forever on one worker does not prevent another idle worker
\* from dequeuing and executing the next queued job, and two jobs can be
\* executing at the same instant.
C33_LockNotHeldDuringJob ==
  /\ \A w \in Workers : worker[w].state = "job" => lock.holder # w
  /\ \A v \in Workers, w \in Workers :
       v # w /\ Running(v, "read") /\ worker[w].state = "idle" /\ queue # <<>>
         => ENABLED WorkerRecv(w)

\* One worker waits in read for a silent client while another worker, having
\* dequeued a later job, executes it.
C33_Witness ==
  \E v \in Workers, w \in Workers :
    /\ v # w
    /\ Running(v, "read") /\ conn[worker[v].job].read = "none"
    /\ worker[w].state = "job"
    /\ worker[v].job < worker[w].job
    /\ conn[worker[w].job].pc \in {"handle", "write"}

\* C34: Request::parse terminates on every input text and returns either a
\* Request or the ParseError, never panicking: each iteration of the header
\* loop consumes at least one non-empty line plus its CRLF, so the remaining
\* text strictly shrinks.
LineEnd(txt) == FindFrom(txt, CRLF, 1)

C34_ParseTerminates ==
  /\ [](main.pc = "loop" =>
          3 * main.iters + Len(main.rest) <= Len(AfterVersion(main.in)))
  /\ [][main.pc = "loop" /\ main'.pc = "loop" =>
          /\ LineEnd(main.rest) > 1
          /\ main'.rest = SubSeq(main.rest, LineEnd(main.rest) + 2, Len(main.rest))
          /\ Len(main'.rest) < Len(main.rest)
          /\ main'.iters = main.iters + 1]_vars
  /\ [](main.pc = "parsed" =>
          /\ main.iters <= Len(main.in.lines)
          /\ main.out = RequestParse(RequestText(main.in))
          /\ \/ main.out = ParseError
             \/ main.out.ok /\ DOMAIN main.out = {"ok", "val"})

\* The loop has gone round twice and then returned a Request.
C34_Witness ==
  /\ main.pc = "parsed"
  /\ main.iters = 2
  /\ main.out.ok

\* C35: Router::route(m, p, h) changes only the entry for (p, m): every
\* other (path, method) pair dispatches exactly as before, including other
\* methods of the same path; registering a second handler for the same
\* (p, m) replaces the first, so only the last registered handler is ever
\* invoked for it.
DispatchPairs == [method : RequestMethods, url : RequestUrls]

C35_RouteChangesOneEntry ==
  /\ [][Len(main.routes') = Len(main.routes) + 1 =>
          LET r == main.routes'[Len(main.routes')] IN
          \A req \in DispatchPairs :
            IF req.method = r.method /\ req.url = r.path
            THEN RouterDispatch(main.map', req) = [some |-> TRUE, val |-> r.handler]
            ELSE RouterDispatch(main.map', req) = RouterDispatch(main.map, req)]_vars
  /\ [](main.pc = "handled" /\ Len(RoutesFor(main.req.method, main.req.url)) >= 2 =>
          main.calls = <<LastRegistered(main.req.method, main.req.url)>>)

\* A request is handled by the second of two handlers registered for its
\* method and path, on a path that has a handler for another method too.
C35_Witness ==
  /\ main.pc = "handled"
  /\ Len(RoutesFor(main.req.method, main.req.url)) = 2
  /\ RoutesFor(main.req.method, main.req.url)[1].handler
       # RoutesFor(main.req.method, main.req.url)[2].handler
  /\ main.calls = <<RoutesFor(main.req.method, main.req.url)[2].handler>>
  /\ \E m \in RouteMethods : m # main.req.method /\ Registered(m, main.req.url)

\* C36: no socket descriptor is leaked on an error path of the transport: if
\* bind or listen fails inside TcpListener::bind the socket just created is
\* closed and no listener is returned, and if resolving the peer address
\* fails inside accept the newly accepted socket is closed before the error
\* is returned.
Owned(f) == \E s \in Socks : sk.live[s] = "live" /\ sk.fd[s] = f

\* The two error paths the claim names.
C36_NamedPathsClose ==
  /\ main.pc = "bind_failed" /\ main.err \in {"bind_err", "listen_err"} =>
       /\ sk.open = {}
       /\ sk.live[0] = "dropped" /\ sk.closes[0] = 1
       /\ main.local = 0
  /\ main.accepts > 0 /\ ~main.last.ok /\ main.last.err = "getpeername" =>
       /\ sk.live[main.accepts] = "dropped" /\ sk.closes[main.accepts] = 1
       /\ \A f \in sk.open : Owned(f)

C36_NoDescriptorLeaked ==
  /\ \A f \in sk.open : Owned(f)
  /\ main.pc = "bind_failed" => sk.open = {}
  /\ C36_NamedPathsClose

====
